---------------------------- MODULE Spec2Model ----------------------------
(***************************************************************************)
(* Workflow execution engine of the Agentic Workflow Builder backend:      *)
(*   WorkflowExecutor.executeWorkflow / executeStep  (backend/executor.js) *)
(*   LLMClient.callModel / evaluateCriteria          (backend/Llm-client.js)*)
(*                                                                         *)
(* One run of executeWorkflow over a stored workflow is modelled.  Every   *)
(* awaited database statement may raise and every backend request may     *)
(* fail (a bounded number of failures per run), and the criteria verdict   *)
(* of an attempt is free.  Spec runs workflows whose stored models are      *)
(* supported ones; SpecConfig runs one-step workflows over every model id  *)
(* and criteria kind; SpecNotify runs them under every notifier state.     *)
(*                                                                         *)
(* Beside the single run: SpecStream is the read loop of callModel over    *)
(* every stream and every cut into chunks; SpecCriteria is one call of     *)
(* evaluateCriteria over outputs and criteria values; SpecOrder is the     *)
(* add, delete and reorder routes of one workflow (backend/schema.js);     *)
(* SpecConc is several runs started together over one connection pool;     *)
(* SpecPrompt is one call of buildPrompt over previous outputs and         *)
(* strategies; SpecSocket is the WebSocket server with its connections,    *)
(* their heartbeat and broadcast; SpecEdit is one run while the step       *)
(* routes edit its workflow; SpecView is the execution view of the         *)
(* frontend with its socket, its timers and the messages it is sent.       *)
(***************************************************************************)
EXTENDS Integers, Sequences, FiniteSets, TLC

(* ------------------------------ bounds -------------------------------- *)
\* longest workflow (number of rows of workflow_steps) explored
MaxSteps == 2
\* largest stored max_retries value explored
MaxRetriesVal == 2
\* how many failures the environment injects into one run: awaited database
\* statements that raise plus backend requests that fail
MaxFailures == 3
\* most clients in the client set of the WebSocket server
MaxClients == 2

(* ------------------------- program constants -------------------------- *)
\* const maxRetries = 3 in callModel
LLMMaxRetries == 3
\* the default of  step.max_retries || 2
DefaultMaxRetries == 2

(* ------------------------------ values -------------------------------- *)
\* step.max_retries is a nullable INTEGER column: <<>> is NULL, <<n>> is n
RetryValues == {<<>>} \cup { <<n>> : n \in -1..MaxRetriesVal }
\* completion_criteria.type, as far as control flow depends on it: "local"
\* is a kind evaluated on the output alone, "unknown" one that hits default
CriteriaKinds == {"local", "llm_judge"}
AllCriteriaKinds == CriteriaKinds \cup {"unknown"}

\* model ids: the ones callModel overrides, the one it uses instead, and one
\* it passes through
DeprecatedModels == {"gpt-3.5-turbo", "gpt-4o-mini", "gemini-1.5-flash",
                     "fireworks-ai/kimi-k2-instruct-0905"}
FallbackModel == "fireworks-ai/kimi-k2p5"
JudgeModel == "fireworks-ai/kimi-k2p5"
OtherModels == {"gpt-4o"}
ModelIds == DeprecatedModels \cup {FallbackModel} \cup OtherModels
NoModel == "none"

StepDefs == [max_retries : RetryValues, kind : CriteriaKinds, model : OtherModels]

Workflows == UNION { [1..n -> StepDefs] : n \in 0..MaxSteps }

\* one-step workflows over every model id and every criteria kind
ConfigStepDefs == [max_retries : {<<0>>, <<1>>}, kind : AllCriteriaKinds,
                   model : ModelIds]
ConfigWorkflows == [1..1 -> ConfigStepDefs]

\* a client of the WebSocket server: readyState === 1, and whether send raises
ClientStates == [open : BOOLEAN, sendRaises : BOOLEAN]
\* this.ws of the executor: absent, or a server with its client set
NotifierModes ==
  {[present |-> FALSE, clients |-> <<>>]} \cup
  { [present |-> TRUE, clients |-> c] :
      c \in UNION { [1..n -> ClientStates] : n \in 0..MaxClients } }
\* new WorkflowExecutor(wsServer) with nobody connected
IdleNotifier == [present |-> TRUE, clients |-> <<>>]

NotifyStepDefs == [max_retries : {<<1>>}, kind : {"local"},
                   model : {"gpt-4o-mini"} \cup OtherModels]
NotifyWorkflows == [1..1 -> NotifyStepDefs]

\* previousOutput = null
NoOutput == <<>>
\* stepExecutionId: not yet assigned / assigned by an INSERT whose COMMIT raised
NoId == 0
LostId == -1
\* errors carry the attempt of callModel that created them (0: not a gateway error)
NoError == [kind |-> "none", at |-> 0]
DbError == [kind |-> "db", at |-> 0]
TypeError == [kind |-> "type", at |-> 0]
GatewayErrorKinds == {"transport", "http", "empty"}
CriteriaError(n) == [kind |-> "criteria", at |-> n]

VARIABLES
  steps,          \* rows of workflow_steps of the workflow, ORDER BY step_order
  pc,             \* position of the run
  failures,       \* database statements that raised and requests that failed so far
  \* ---- executeWorkflow
  execStatus,     \* workflow_executions.status of this run ("none": no row)
  execError,      \* workflow_executions.error_message
  termWrites,     \* successful UPDATEs of the status to completed / failed
  i,              \* loop index, 1-based
  previousOutput, \* let previousOutput
  wfError,        \* the error / stepResult.error being handled
  result,         \* what executeWorkflow gave its caller
  conns,          \* pool connections this run holds
  evFailed,       \* broadcasts with status failed
  evCompleted,    \* broadcasts with status completed
  \* ---- executeStep
  maxRetries,
  retryCount,
  stepExecId,
  llmResponse,
  criteriaPassed,
  stepError,
  records,        \* rows of step_executions of this run, in creation order
  invocations,    \* calls of executeStep: <<step, previousOutput>>
  attemptLog,     \* per step: how each attempt ended: "critpass", "critfail",
                  \* "error" (raised after its record was committed) or
                  \* "error_norecord" (raised before)
  gatewayCalls,   \* per step: callModel invocations made by executeStep
  judgeCalls,     \* per step: callModel invocations made by evaluateCriteria
  stepResult,     \* per step: what executeStep gave executeWorkflow
  attemptTrace,   \* what the attempt in progress, or the last one, did so far
  startTx,        \* the transaction of the start: "none" | "open" | "rolled_back" | "committed"
  raisedBy,       \* a failed start raised the error of: "none" | "start" | "rollback"
  httpRequests,   \* per step: fetch calls made for it, by either caller of callModel
  \* ---- callModel (the invocation in flight, or the last one)
  cmCaller,
  attempt,
  lastError,
  requests,       \* fetch calls of this invocation
  backoffs,       \* backoff waits of this invocation
  cmOutcome,      \* "idle" | "running" | "returned" | "raised"
  cmModel,        \* the model argument
  usedModel,      \* let usedModel
  switched,       \* let switched
  sentModel,      \* model of the body of the last request
  \* ---- model substitution seen by executeStep
  storedModel,    \* per step: workflow_steps.model as stored now
  evSwitched,     \* model_switched broadcasts: [step, originalModel, newModel]
  switchLog,      \* per gateway result with switched = true: [step, outcome],
                  \* "pending" | "written" | "raised" (the UPDATE raised)
  \* ---- progress notifier
  ws,             \* this.ws and the clients of the server
  notifyRaised    \* a broadcast raised into the run

wfVars == <<execStatus, execError, termWrites, i, previousOutput, wfError,
            result, conns, evFailed, evCompleted>>
stVars == <<maxRetries, retryCount, stepExecId, llmResponse, criteriaPassed,
            stepError, records, invocations, attemptLog, gatewayCalls,
            judgeCalls, stepResult>>
trVars == <<attemptTrace>>
startVars == <<startTx, raisedBy>>
reqVars == <<httpRequests>>
cmVars == <<cmCaller, attempt, lastError, requests, backoffs, cmOutcome,
            cmModel, usedModel, switched, sentModel>>
swVars == <<storedModel, evSwitched, switchLog>>
nfVars == <<ws, notifyRaised>>
execVars == <<steps, pc, failures, wfVars, stVars, trVars, startVars, reqVars, cmVars,
              swVars, nfVars>>

\* ---- the read loop of callModel on its own (SpecStream)
VARIABLES
  stream,         \* the characters the backend sends, in order
  pos,            \* how many of them reader.read() has handed over
  buffer,         \* let buffer
  streamText,     \* let fullContent (the name is taken by the value callModel returns)
  streamDone,     \* the read loop was left
  critOutput,     \* evaluateCriteria: output
  critCriteria,   \* evaluateCriteria: criteria
  critJudge,      \* what callModel does when the judge is asked
  critResult,     \* the CriteriaResult returned
  rows,           \* workflow_steps of one workflow: id -> step_order
  nextId,         \* next value of the id sequence
  pendingAdd,     \* stepOrder of the add request between SELECT and INSERT
  poolSize,       \* connections of the pool
  runPc,          \* per run: its position
  runHeld,        \* per run: pool connections it holds
  runScript,      \* per run: the criteria verdict of each attempt
  runExecId,      \* per run: executionId
  runStepExecId,  \* per run: stepExecutionId
  runRetry,       \* per run: retryCount
  runModel,       \* per run: step.model as read at the start
  runSwitched,    \* per run: a gateway result had switched = true
  runResult,      \* per run: the status it resolves to
  executions,     \* table workflow_executions
  stepExecutions, \* table step_executions
  stepModel,      \* workflow_steps.model of the step
  bpStep,         \* buildPrompt: step (prompt, context_strategy)
  bpPrev,         \* buildPrompt: previousOutput
  bpContext,      \* buildPrompt: let context
  bpResult,       \* the prompt returned
  socks,          \* per connection: the socket and its heartbeat
  wsClients,      \* this.clients
  inbox,          \* per connection: the broadcasts sent to it
  broadcasts,     \* the calls of broadcast so far
  wsOn,           \* the server is part of the specification
  rowCfg,         \* per step id: how often the row was updated
  snapshot,       \* const steps = stepsResult.rows of the run
  stepsRun,       \* the steps the run sent to the gateway, as it used them
  snapResult,     \* "none" | "running" | "completed" | "failed"
  snapFailedBy,   \* "none" | "criteria" | "missing_row"
  isMounted,      \* let isMounted of the effect
  isConnected,    \* useState: isConnected
  progress,       \* useState: progress
  execution,      \* useState: execution
  viewWs,         \* let ws of the effect: the socket and its handlers
  connectTimers,  \* pending setTimeout(connect, 3000)
  reloadTimers,   \* pending setTimeout(... loadLatestExecution ..., 1000)
  loads,          \* calls of loadLatestExecution waiting for their answers
  wsCreated,      \* sockets created by connect so far
  delivered,      \* messages handed to onMessage so far
  lastMessage,    \* the last of them
  lateUpdates     \* who called a state setter after the cleanup

streamVars == <<stream, pos, buffer, streamText, streamDone>>

\* the state of the specifications that do not run executeWorkflow
critVars == <<critOutput, critCriteria, critJudge, critResult>>
orderVars == <<rows, nextId, pendingAdd>>
concVars == <<poolSize, runPc, runHeld, runScript, runExecId, runStepExecId,
              runRetry, runModel, runSwitched, runResult, executions,
              stepExecutions, stepModel>>
promptVars == <<bpStep, bpPrev, bpContext, bpResult>>
socketVars == <<socks, wsClients, inbox, broadcasts, wsOn>>
editVars == <<rowCfg, snapshot, stepsRun, snapResult, snapFailedBy>>
viewVars == <<isMounted, isConnected, progress, execution, viewWs, connectTimers,
              reloadTimers, loads, wsCreated, delivered, lastMessage, lateUpdates>>
asideVars == <<streamVars, critVars, orderVars, concVars, promptVars,
               socketVars, editVars, viewVars>>
vars == <<execVars, asideVars>>

StepIdx == 1..Len(steps)

\* a run about to start on a workflow of W with notifier state out of N
ExecInit(W, N) ==
  /\ steps \in W
  /\ ws \in N
  /\ notifyRaised = FALSE
  /\ storedModel = [s \in StepIdx |-> steps[s].model]
  /\ evSwitched = <<>>
  /\ switchLog = <<>>
  /\ cmModel = NoModel
  /\ usedModel = NoModel
  /\ switched = FALSE
  /\ sentModel = NoModel
  /\ pc = "idle"
  /\ failures = 0
  /\ execStatus = "none"
  /\ execError = [step |-> 0, err |-> NoError]
  /\ termWrites = 0
  /\ i = 0
  /\ previousOutput = NoOutput
  /\ wfError = NoError
  /\ result = "none"
  /\ conns = 0
  /\ evFailed = 0
  /\ evCompleted = 0
  /\ maxRetries = 0
  /\ retryCount = 0
  /\ stepExecId = NoId
  /\ llmResponse = NoOutput
  /\ criteriaPassed = FALSE
  /\ stepError = NoError
  /\ records = <<>>
  /\ invocations = <<>>
  /\ attemptLog = [s \in StepIdx |-> <<>>]
  /\ gatewayCalls = [s \in StepIdx |-> 0]
  /\ judgeCalls = [s \in StepIdx |-> 0]
  /\ stepResult = [s \in StepIdx |-> "none"]
  /\ attemptTrace = <<>>
  /\ startTx = "none"
  /\ raisedBy = "none"
  /\ httpRequests = [s \in StepIdx |-> 0]
  /\ cmCaller = "none"
  /\ attempt = 0
  /\ lastError = NoError
  /\ requests = 0
  /\ backoffs = 0
  /\ cmOutcome = "idle"

\* an awaited database statement raises
Fault == /\ failures < MaxFailures
         /\ failures' = failures + 1


(* ---------------------- decisions taken by the code -------------------- *)
\* const maxRetries = step.max_retries || 2   (null and 0 are falsy)
EffectiveMaxRetries(mr) ==
  IF mr = <<>> \/ mr[1] = 0 THEN DefaultMaxRetries ELSE mr[1]

\* while (retryCount <= maxRetries)
LoopCondition(rc, mr) == rc <= mr

\* if (retryCount > maxRetries) return { status: 'failed', ... }
RetriesExhausted(rc, mr) == rc > mr

\* (variant: retry_count is left at the column default 0)
NewRecord_ZeroRetry(s, rc) ==
  [step |-> s, retry_count |-> 0, status |-> "running", prompt |-> FALSE,
   response |-> NoOutput, criteria |-> "none", error |-> NoError]

\* INSERT INTO step_executions (..., status, retry_count) VALUES (..., 'running', retryCount)
NewRecord(s, rc) ==
  [step |-> s, retry_count |-> rc, status |-> "running", prompt |-> FALSE,
   response |-> NoOutput, criteria |-> "none", error |-> NoError]

\* (variant: the increment is lost)
NextRetryCount_Stuck(rc) == rc

\* retryCount++
NextRetryCount(rc) == rc + 1

\* (variant: the assignment is lost and the old value is kept)
CarryOutput_Stale(prev, out) == prev

\* previousOutput = stepResult.output
CarryOutput(prev, out) == out

\* the content callModel returns for attempt rc of step s (never empty)
Content(s, rc) == <<s, rc>>

\* what one request to the backend can give: a stream with text, a rejected
\* fetch, a non-2xx status, or a stream that ends without any text
BackendOutcomes == {"ok"} \cup GatewayErrorKinds

\* fullContent once the stream of attempt rc of step s has been read to its end
StreamContent(k, s, rc) == IF k = "ok" THEN Content(s, rc) ELSE NoOutput

\* (variant: the check for an empty result is missing)
NoContent_Unchecked(fullContent) == FALSE

\* if (!fullContent) throw new Error('No content received from stream')
NoContent(fullContent) == fullContent = NoOutput

\* (variant: off by one, a fourth request)
GatewayLoopCondition_OneMore(a) == a <= LLMMaxRetries + 1

\* for (let attempt = 1; attempt <= maxRetries; attempt++)
GatewayLoopCondition(a) == a <= LLMMaxRetries

\* if (attempt < maxRetries) { await delay; continue; }
ShouldBackoff(a) == a < LLMMaxRetries

\* (variant: one id is missing from the condition)
IsDeprecated_Partial(model) ==
  model \in {"gpt-3.5-turbo", "gpt-4o-mini", "gemini-1.5-flash"}

\* if (model === 'gpt-3.5-turbo' || model === 'gpt-4o-mini' || ...)
IsDeprecated(model) == model \in DeprecatedModels

\* (variant: the replacement is an id the condition lists itself)
UsedModelOf_Chained(model) ==
  IF IsDeprecated(model) THEN "fireworks-ai/kimi-k2-instruct-0905" ELSE model

\* let usedModel = model; ... usedModel = 'fireworks-ai/kimi-k2p5'
UsedModelOf(model) == IF IsDeprecated(model) THEN FallbackModel ELSE model

\* let switched = false; ... switched = true
SwitchedOf(model) == IsDeprecated(model)

\* (variant: the requested id is written back instead of the one used)
PersistedModel_Original(original, used) == original

\* UPDATE workflow_steps SET model = $1: [executeResult.usedModel, step.id]
PersistedModel(original, used) == used

\* client.send(data)
SendOutcome(c) == IF c.sendRaises THEN "raised" ELSE "sent"

\* (variant: send is called outside any try)
GuardedSend_NoCatch(c) == SendOutcome(c)

\* try { client.send(data) } catch (error) { console.error(...) }
GuardedSend(c) == IF SendOutcome(c) = "raised" THEN "logged" ELSE "sent"

\* executor.broadcast and WorkflowWebSocket.broadcast: whether the call raises
BroadcastRaises(w) ==
  /\ w.present
  /\ \E k \in DOMAIN w.clients :
       /\ w.clients[k].open
       /\ GuardedSend(w.clients[k]) = "raised"

\* this.broadcast(executionId, {...})
Notify == notifyRaised' = (notifyRaised \/ BroadcastRaises(ws))

\* (variant: no client.release())
Released_Kept(held) == held

\* finally { client.release() }: what the run holds afterwards
Released(held) == held - 1

\* (variant: the UPDATE changes no row)
UpdateRecord_Lost(recs, id, field, value) == recs

\* UPDATE step_executions SET ... WHERE id = $n  (no row when the INSERT was rolled back)
UpdateRecord(recs, id, field, value) ==
  IF id \in DOMAIN recs THEN [recs EXCEPT ![id][field] = value] ELSE recs

\* the locals of callModel before an invocation and after its caller resumed
CmIdle ==
  /\ cmCaller' = "none"
  /\ attempt' = 0
  /\ lastError' = NoError
  /\ requests' = 0
  /\ backoffs' = 0
  /\ cmOutcome' = "idle"
  /\ cmModel' = NoModel
  /\ usedModel' = NoModel
  /\ switched' = FALSE
  /\ sentModel' = NoModel

\* callModel(model, prompt) up to its first fetch
CmEnter(caller, model) ==
  /\ cmCaller' = caller
  /\ attempt' = 1
  /\ lastError' = NoError
  /\ requests' = 0
  /\ backoffs' = 0
  /\ cmOutcome' = "running"
  /\ cmModel' = model
  /\ usedModel' = UsedModelOf(model)
  /\ switched' = SwitchedOf(model)
  /\ sentModel' = NoModel

\* let stepExecutionId, const llmResponse, criteriaResult, error: scoped to one
\* pass of the while loop of executeStep
AttemptLocalsGone ==
  /\ stepExecId' = NoId
  /\ llmResponse' = NoOutput
  /\ criteriaPassed' = FALSE
  /\ stepError' = NoError

Logged(outcome) == [attemptLog EXCEPT ![i] = Append(@, outcome)]

\* the attempt went on with these statements and broadcasts, in this order
Did(what) == attemptTrace' = attemptTrace \o what

(* --------------------------- executeWorkflow --------------------------- *)
\* the awaited statements inside the try block of the start
StartStatements == {"BEGIN", "INSERT", "SELECT", "COMMIT"}

\* pool.connect(); BEGIN; INSERT workflow_executions; SELECT steps; COMMIT;
\* broadcast the initial status
StartRun ==
  /\ pc = "idle"
  /\ \/ \* pool.connect() raises before the try block: nothing to undo
        /\ Fault
        /\ pc' = "done"
        /\ result' = "raised"
        /\ raisedBy' = "start"
        /\ UNCHANGED <<execStatus, conns, i, previousOutput, notifyRaised, startTx>>
     \/ \* BEGIN raises (no transaction), or INSERT / SELECT / COMMIT raises
        \* (the row of the run is in the open transaction): to the catch
        /\ Fault
        /\ \E at \in StartStatements :
             startTx' = IF at = "BEGIN" THEN "none" ELSE "open"
        /\ conns' = conns + 1
        /\ pc' = "start_catch"
        /\ UNCHANGED <<execStatus, i, previousOutput, notifyRaised, result, raisedBy>>
     \/ /\ execStatus' = "running"
        /\ startTx' = "committed"
        /\ conns' = conns + 1
        /\ i' = 1
        /\ previousOutput' = NoOutput
        /\ pc' = "loop"
        /\ Notify
        /\ UNCHANGED <<failures, result, raisedBy>>
  /\ UNCHANGED <<ws, swVars>>
  /\ UNCHANGED asideVars
  /\ UNCHANGED attemptTrace
  /\ UNCHANGED reqVars
  /\ UNCHANGED <<steps, execError, termWrites, wfError, evFailed, evCompleted,
                 stVars, cmVars>>

\* await client.query('ROLLBACK') raises inside the catch: its error replaces
\* the one being handled
RollbackRaised == "rollback"

\* catch (error) { ROLLBACK; throw error } finally { client.release() }, for an
\* error of the start
StartCatch ==
  /\ pc = "start_catch"
  /\ \/ /\ startTx' = IF startTx = "open" THEN "rolled_back" ELSE startTx
        /\ raisedBy' = "start"
        /\ UNCHANGED failures
     \/ /\ Fault
        /\ raisedBy' = RollbackRaised
        /\ UNCHANGED startTx
  /\ conns' = Released(conns)
  /\ result' = "raised"
  /\ pc' = "done"
  /\ UNCHANGED <<ws, notifyRaised, swVars>>
  /\ UNCHANGED asideVars
  /\ UNCHANGED attemptTrace
  /\ UNCHANGED reqVars
  /\ UNCHANGED <<steps, execStatus, execError, termWrites, i, previousOutput,
                 wfError, evFailed, evCompleted, stVars, cmVars>>

\* for (let i = 0; i < steps.length; i++): broadcast "step starting" and enter
\* executeStep, or leave the loop
LoopHead ==
  /\ pc = "loop"
  /\ IF i <= Len(steps)
     THEN /\ maxRetries' = EffectiveMaxRetries(steps[i].max_retries)
          /\ retryCount' = 0
          /\ invocations' = Append(invocations, [step |-> i, prev |-> previousOutput])
          /\ pc' = "attempt"
          /\ Notify
     ELSE /\ pc' = "mark_completed"
          /\ UNCHANGED <<maxRetries, retryCount, invocations, notifyRaised>>
  /\ UNCHANGED <<ws, swVars>>
  /\ UNCHANGED asideVars
  /\ UNCHANGED startVars
  /\ UNCHANGED reqVars
  /\ UNCHANGED attemptTrace
  /\ UNCHANGED <<steps, failures, wfVars, stepExecId, llmResponse, criteriaPassed,
                 stepError, records, attemptLog, gatewayCalls, judgeCalls,
                 stepResult, cmVars>>

(* ----------------------------- executeStep ----------------------------- *)
\* the while condition and  const client = await pool.connect()
AttemptHead ==
  /\ pc = "attempt"
  /\ IF LoopCondition(retryCount, maxRetries)
     THEN \/ /\ conns' = conns + 1
             /\ stepExecId' = NoId
             /\ pc' = "insert"
             /\ attemptTrace' = <<>>
             /\ UNCHANGED <<failures, wfError, stepResult, attemptLog>>
          \/ \* pool.connect() raises outside the try: executeStep raises
             /\ Fault
             /\ stepResult' = [stepResult EXCEPT ![i] = "raised"]
             /\ attemptLog' = Logged("error_norecord")
             /\ wfError' = DbError
             /\ pc' = "wf_catch"
             /\ UNCHANGED <<conns, stepExecId, attemptTrace>>
     ELSE \* the loop is never entered: executeStep returns undefined and
          \* stepResult.status raises a TypeError in executeWorkflow
          /\ stepResult' = [stepResult EXCEPT ![i] = "undefined"]
          /\ wfError' = TypeError
          /\ pc' = "wf_catch"
          /\ UNCHANGED <<failures, conns, stepExecId, attemptLog, attemptTrace>>
  /\ UNCHANGED <<ws, notifyRaised, swVars>>
  /\ UNCHANGED asideVars
  /\ UNCHANGED startVars
  /\ UNCHANGED reqVars
  /\ UNCHANGED <<steps, execStatus, execError, termWrites, i, previousOutput,
                 result, evFailed, evCompleted, maxRetries, retryCount,
                 llmResponse, criteriaPassed, stepError, records, invocations,
                 gatewayCalls, judgeCalls, cmVars>>

\* BEGIN; INSERT INTO step_executions ... RETURNING id; COMMIT
InsertRecord ==
  /\ pc = "insert"
  /\ \/ /\ records' = Append(records, NewRecord(i, retryCount))
        /\ stepExecId' = Len(records) + 1
        /\ pc' = "prompt"
        /\ Did(<<"record_created">>)
        /\ UNCHANGED <<failures, stepError>>
     \/ \* BEGIN or INSERT raises: no id was assigned
        /\ Fault
        /\ stepError' = DbError
        /\ pc' = "st_catch"
        /\ UNCHANGED <<records, stepExecId, attemptTrace>>
     \/ \* COMMIT raises: the id was assigned, the row is rolled back
        /\ Fault
        /\ stepExecId' = LostId
        /\ stepError' = DbError
        /\ pc' = "st_catch"
        /\ UNCHANGED <<records, attemptTrace>>
  /\ UNCHANGED <<ws, notifyRaised, swVars>>
  /\ UNCHANGED asideVars
  /\ UNCHANGED startVars
  /\ UNCHANGED reqVars
  /\ UNCHANGED <<steps, wfVars, maxRetries, retryCount, llmResponse,
                 criteriaPassed, invocations, attemptLog, gatewayCalls,
                 judgeCalls, stepResult, cmVars>>

\* (variant: the gateway is called before the prompt is stored and announced)
PromptThenCall_CallFirst == <<"gateway_call", "prompt_persisted", "calling_llm">>

\* UPDATE prompt_sent; broadcast calling_llm; llmClient.callModel
PromptThenCall == <<"prompt_persisted", "calling_llm", "gateway_call">>

\* buildPrompt; UPDATE prompt_sent; broadcast calling_llm; callModel up to its
\* first fetch
PersistPrompt ==
  /\ pc = "prompt"
  /\ \/ /\ records' = UpdateRecord(records, stepExecId, "prompt", TRUE)
        /\ gatewayCalls' = [gatewayCalls EXCEPT ![i] = @ + 1]
        /\ CmEnter("step", steps[i].model)
        /\ pc' = "cm_fetch"
        /\ Notify
        /\ Did(PromptThenCall)
        /\ UNCHANGED <<failures, stepError>>
     \/ /\ Fault
        /\ stepError' = DbError
        /\ pc' = "st_catch"
        /\ UNCHANGED <<records, gatewayCalls, cmVars, notifyRaised, attemptTrace>>
  /\ UNCHANGED <<ws, swVars>>
  /\ UNCHANGED asideVars
  /\ UNCHANGED startVars
  /\ UNCHANGED reqVars
  /\ UNCHANGED <<steps, wfVars, maxRetries, retryCount, stepExecId, llmResponse,
                 criteriaPassed, invocations, attemptLog, judgeCalls, stepResult>>


(* ------------------------------ callModel ------------------------------ *)
\* throw lastError: to the catch of executeStep, or to the catch of
\* evaluateCriteria, which turns it into a failed result
CmRaise(err) ==
  /\ cmOutcome' = "raised"
  /\ IF cmCaller = "step"
     THEN /\ stepError' = err
          /\ pc' = "st_catch"
          /\ UNCHANGED criteriaPassed
     ELSE /\ criteriaPassed' = FALSE
          /\ pc' = "persist_result"
          /\ UNCHANGED stepError

\* attempt++ and the loop condition: the next fetch, or the throw after the loop
CmAdvance(err) ==
  /\ attempt' = attempt + 1
  /\ IF GatewayLoopCondition(attempt + 1)
     THEN /\ pc' = "cm_fetch"
          /\ UNCHANGED <<cmOutcome, criteriaPassed, stepError>>
     ELSE CmRaise(err)

\* one fetch of the retry loop with the stream read to its end: content,
\* or an error (transport, non-2xx status, empty stream) caught by the loop
Fetch ==
  /\ pc = "cm_fetch"
  /\ requests' = requests + 1
  /\ httpRequests' = [httpRequests EXCEPT ![i] = @ + 1]
  /\ sentModel' = usedModel
  /\ \E k \in BackendOutcomes :
       LET fullContent == StreamContent(k, i, retryCount)
           err == [kind |-> k, at |-> attempt]
       IN
       /\ IF k = "ok"
          THEN UNCHANGED failures
          ELSE /\ failures < MaxFailures
               /\ failures' = failures + 1
       /\ IF k \in {"transport", "http"} \/ NoContent(fullContent)
          THEN \* catch (error): lastError = error; backoff or leave the loop
               /\ lastError' = err
               /\ UNCHANGED <<llmResponse, switchLog>>
               /\ IF ShouldBackoff(attempt)
                  THEN /\ backoffs' = backoffs + 1
                       /\ pc' = "cm_backoff"
                       /\ UNCHANGED <<attempt, cmOutcome, criteriaPassed, stepError>>
                  ELSE /\ CmAdvance(err)
                       /\ UNCHANGED backoffs
          ELSE \* return { content: fullContent, usedModel, switched }
               /\ cmOutcome' = "returned"
               /\ UNCHANGED <<attempt, lastError, backoffs, stepError>>
               /\ IF cmCaller = "step"
                  THEN /\ llmResponse' = fullContent
                       /\ pc' = "persist_response"
                       /\ switchLog' =
                            IF switched
                            THEN Append(switchLog, [step |-> i, outcome |-> "pending"])
                            ELSE switchLog
                       /\ UNCHANGED criteriaPassed
                  ELSE \* result.passed = judgeResponse.toUpperCase().startsWith('YES')
                       /\ criteriaPassed' \in
                            (IF fullContent = NoOutput THEN {FALSE} ELSE BOOLEAN)
                       /\ pc' = "persist_result"
                       /\ UNCHANGED <<llmResponse, switchLog>>
  /\ UNCHANGED <<ws, notifyRaised, storedModel, evSwitched, cmModel, usedModel, switched>>
  /\ UNCHANGED asideVars
  /\ UNCHANGED startVars
  /\ UNCHANGED attemptTrace
  /\ UNCHANGED <<steps, wfVars, cmCaller, maxRetries, retryCount,
                 stepExecId, records, invocations, attemptLog, gatewayCalls,
                 judgeCalls, stepResult>>

\* await new Promise(resolve => setTimeout(resolve, delay)); continue
Backoff ==
  /\ pc = "cm_backoff"
  /\ CmAdvance(lastError)
  /\ UNCHANGED <<ws, notifyRaised, swVars, cmModel, usedModel, switched, sentModel>>
  /\ UNCHANGED asideVars
  /\ UNCHANGED startVars
  /\ UNCHANGED reqVars
  /\ UNCHANGED attemptTrace
  /\ UNCHANGED <<steps, failures, wfVars, cmCaller, lastError, requests, backoffs,
                 maxRetries, retryCount, stepExecId, llmResponse, records,
                 invocations, attemptLog, gatewayCalls, judgeCalls, stepResult>>

(* ------------------------ executeStep, continued ----------------------- *)
\* the verdicts evaluateCriteria can reach without the gateway: default gives
\* result.passed = false
CriteriaVerdicts(kind) == IF kind = "unknown" THEN {FALSE} ELSE BOOLEAN

\* the entry of the gateway result being handled, settled
SwitchLogged(outcome) == [switchLog EXCEPT ![Len(switchLog)].outcome = outcome]

\* if (executeResult.switched) { UPDATE workflow_steps SET model = usedModel;
\* broadcast model_switched with originalModel and newModel }
SwitchPersisted ==
  IF switched
  THEN /\ storedModel' = [storedModel EXCEPT
                            ![i] = PersistedModel(steps[i].model, usedModel)]
       /\ evSwitched' = Append(evSwitched,
                               [step |-> i, originalModel |-> steps[i].model,
                                newModel |-> usedModel])
       /\ switchLog' = SwitchLogged("written")
  ELSE UNCHANGED swVars

\* what the handling of switched adds to the attempt
SwitchDone ==
  IF switched THEN <<"model_persisted", "model_switched">> ELSE <<>>

\* the handling of switched; UPDATE llm_response; broadcast
\* evaluating_criteria; evaluateCriteria up to its result (kinds evaluated on
\* the output alone) or up to the judge's first fetch (llm_judge)
PersistResponse ==
  /\ pc = "persist_response"
  /\ \/ /\ SwitchPersisted
        /\ Notify
        /\ Did(SwitchDone \o <<"response_persisted", "evaluating_criteria">>)
        /\ records' = UpdateRecord(records, stepExecId, "response", llmResponse)
        /\ UNCHANGED <<failures, stepError>>
        /\ IF steps[i].kind = "llm_judge"
           THEN /\ judgeCalls' = [judgeCalls EXCEPT ![i] = @ + 1]
                /\ CmEnter("judge", JudgeModel)
                /\ pc' = "cm_fetch"
                /\ UNCHANGED criteriaPassed
           ELSE /\ criteriaPassed' \in CriteriaVerdicts(steps[i].kind)
                /\ pc' = "persist_result"
                /\ CmIdle
                /\ UNCHANGED judgeCalls
     \/ \* the UPDATE of workflow_steps raises
        /\ switched
        /\ Fault
        /\ switchLog' = SwitchLogged("raised")
        /\ stepError' = DbError
        /\ pc' = "st_catch"
        /\ CmIdle
        /\ UNCHANGED <<records, judgeCalls, criteriaPassed, storedModel,
                       evSwitched, notifyRaised, attemptTrace>>
     \/ \* the UPDATE of llm_response raises
        /\ Fault
        /\ SwitchPersisted
        /\ IF switched THEN Notify ELSE UNCHANGED notifyRaised
        /\ Did(SwitchDone)
        /\ stepError' = DbError
        /\ pc' = "st_catch"
        /\ CmIdle
        /\ UNCHANGED <<records, judgeCalls, criteriaPassed>>
  /\ UNCHANGED asideVars
  /\ UNCHANGED startVars
  /\ UNCHANGED reqVars
  /\ UNCHANGED <<steps, ws, wfVars, maxRetries, retryCount, stepExecId,
                 llmResponse, invocations, attemptLog, gatewayCalls, stepResult>>

\* criteria not met: UPDATE status = failed, then broadcast retry, before
\* retryCount++ and the check of the budget
RetryAnnounced(rc, mr) == <<"criteria_evaluated", "record_failed", "retry">>

\* UPDATE criteria_result, status; then return completed, or count the failed
\* attempt and return failed / wait before the retry
PersistResult ==
  /\ pc = "persist_result"
  /\ \/ /\ criteriaPassed
        /\ records' = UpdateRecord(
                         UpdateRecord(records, stepExecId, "criteria", "passed"),
                         stepExecId, "status", "completed")
        /\ attemptLog' = Logged("critpass")
        /\ Did(<<"criteria_evaluated", "record_completed", "completed">>)
        /\ stepResult' = [stepResult EXCEPT ![i] = "completed"]
        /\ conns' = Released(conns)
        /\ previousOutput' = CarryOutput(previousOutput, llmResponse)
        /\ i' = i + 1
        /\ pc' = "loop"
        /\ AttemptLocalsGone
        /\ Notify
        /\ UNCHANGED <<failures, retryCount, wfError>>
     \/ /\ ~criteriaPassed
        /\ records' = UpdateRecord(
                         UpdateRecord(records, stepExecId, "criteria", "failed"),
                         stepExecId, "status", "failed")
        /\ attemptLog' = Logged("critfail")
        /\ Did(RetryAnnounced(NextRetryCount(retryCount), maxRetries))
        /\ retryCount' = NextRetryCount(retryCount)
        /\ AttemptLocalsGone
        /\ Notify
        /\ UNCHANGED <<failures, previousOutput, i>>
        /\ IF RetriesExhausted(NextRetryCount(retryCount), maxRetries)
           THEN /\ stepResult' = [stepResult EXCEPT ![i] = "failed"]
                /\ wfError' = CriteriaError(maxRetries + 1)
                /\ conns' = Released(conns)
                /\ pc' = "wf_failed"
           ELSE /\ pc' = "retry_wait"
                /\ UNCHANGED <<stepResult, wfError, conns>>
     \/ /\ Fault
        /\ stepError' = DbError
        /\ pc' = "st_catch"
        /\ Did(<<"criteria_evaluated">>)
        /\ UNCHANGED <<records, attemptLog, stepResult, conns, previousOutput, i,
                       retryCount, wfError, stepExecId, llmResponse,
                       criteriaPassed, notifyRaised>>
  /\ CmIdle
  /\ UNCHANGED <<ws, swVars>>
  /\ UNCHANGED asideVars
  /\ UNCHANGED startVars
  /\ UNCHANGED reqVars
  /\ UNCHANGED <<steps, execStatus, execError, termWrites, result, evFailed,
                 evCompleted, maxRetries, invocations, gatewayCalls, judgeCalls>>

\* await new Promise(resolve => setTimeout(resolve, 2000)); finally release
RetryWait ==
  /\ pc = "retry_wait"
  /\ conns' = Released(conns)
  /\ pc' = "attempt"
  /\ UNCHANGED <<ws, notifyRaised, swVars>>
  /\ UNCHANGED asideVars
  /\ UNCHANGED startVars
  /\ UNCHANGED reqVars
  /\ UNCHANGED attemptTrace
  /\ UNCHANGED <<steps, failures, execStatus, execError, termWrites, i,
                 previousOutput, wfError, result, evFailed, evCompleted, stVars,
                 cmVars>>

\* catch (error): ROLLBACK; UPDATE status = failed if a record id is known;
\* count the attempt; return failed or go round the loop; finally release
StepCatch ==
  /\ pc = "st_catch"
  /\ conns' = Released(conns)
  /\ attemptLog' = Logged(IF stepExecId \in DOMAIN records
                          THEN "error" ELSE "error_norecord")
  /\ \/ \* ROLLBACK raises, or the UPDATE of the failed status raises:
        \* executeStep raises
        /\ Fault
        /\ stepResult' = [stepResult EXCEPT ![i] = "raised"]
        /\ wfError' = DbError
        /\ pc' = "wf_catch"
        /\ UNCHANGED <<records, retryCount, attemptTrace>>
     \/ /\ records' = IF stepExecId # NoId
                      THEN UpdateRecord(
                             UpdateRecord(records, stepExecId, "error", stepError),
                             stepExecId, "status", "failed")
                      ELSE records
        /\ retryCount' = NextRetryCount(retryCount)
        /\ Did(IF stepExecId # NoId THEN <<"record_failed">> ELSE <<>>)
        /\ UNCHANGED failures
        /\ IF RetriesExhausted(NextRetryCount(retryCount), maxRetries)
           THEN /\ stepResult' = [stepResult EXCEPT ![i] = "failed"]
                /\ wfError' = stepError
                /\ pc' = "wf_failed"
           ELSE /\ pc' = "attempt"
                /\ UNCHANGED <<stepResult, wfError>>
  /\ CmIdle
  /\ AttemptLocalsGone
  /\ UNCHANGED <<ws, notifyRaised, swVars>>
  /\ UNCHANGED asideVars
  /\ UNCHANGED startVars
  /\ UNCHANGED reqVars
  /\ UNCHANGED <<steps, execStatus, execError, termWrites, i, previousOutput,
                 result, evFailed, evCompleted, maxRetries, invocations,
                 gatewayCalls, judgeCalls>>

(* ----------------------- executeWorkflow, continued -------------------- *)
\* (variant: the return after the failure broadcast is missing, the loop goes on)
StepFailed_NoReturn ==
  /\ pc = "wf_failed"
  /\ \/ /\ execStatus' = "failed"
        /\ execError' = [step |-> i, err |-> wfError]
        /\ termWrites' = termWrites + 1
        /\ evFailed' = evFailed + 1
        /\ Notify
        /\ previousOutput' = NoOutput
        /\ i' = i + 1
        /\ pc' = "loop"
        /\ UNCHANGED <<failures, wfError, result, conns>>
     \/ /\ Fault
        /\ wfError' = DbError
        /\ pc' = "wf_catch"
        /\ UNCHANGED <<execStatus, execError, termWrites, evFailed, result, conns,
                       i, previousOutput, notifyRaised>>
  /\ UNCHANGED <<ws, swVars>>
  /\ UNCHANGED asideVars
  /\ UNCHANGED startVars
  /\ UNCHANGED reqVars
  /\ UNCHANGED attemptTrace
  /\ UNCHANGED <<steps, evCompleted, stVars, cmVars>>

\* if (stepResult.status === 'failed'): markExecutionFailed, broadcast, return
StepFailed ==
  /\ pc = "wf_failed"
  /\ \/ /\ execStatus' = "failed"
        /\ execError' = [step |-> i, err |-> wfError]
        /\ termWrites' = termWrites + 1
        /\ evFailed' = evFailed + 1
        /\ Notify
        /\ result' = "failed"
        /\ conns' = Released(conns)
        /\ pc' = "done"
        /\ UNCHANGED <<failures, wfError>>
     \/ \* the UPDATE raises: the catch of the loop body takes over
        /\ Fault
        /\ wfError' = DbError
        /\ pc' = "wf_catch"
        /\ UNCHANGED <<execStatus, execError, termWrites, evFailed, result, conns,
                       notifyRaised>>
  /\ UNCHANGED <<ws, swVars>>
  /\ UNCHANGED asideVars
  /\ UNCHANGED startVars
  /\ UNCHANGED reqVars
  /\ UNCHANGED attemptTrace
  /\ UNCHANGED <<steps, i, previousOutput, evCompleted, stVars, cmVars>>

\* catch (error) of the loop body: markExecutionFailed(error.message),
\* broadcast, return
StepRaised ==
  /\ pc = "wf_catch"
  /\ conns' = Released(conns)
  /\ pc' = "done"
  /\ \/ /\ execStatus' = "failed"
        /\ execError' = [step |-> 0, err |-> wfError]
        /\ termWrites' = termWrites + 1
        /\ evFailed' = evFailed + 1
        /\ Notify
        /\ result' = "failed"
        /\ UNCHANGED failures
     \/ \* the UPDATE raises: outer catch, ROLLBACK, rethrow
        /\ Fault
        /\ result' = "raised"
        /\ UNCHANGED <<execStatus, execError, termWrites, evFailed, notifyRaised>>
  /\ UNCHANGED <<ws, swVars>>
  /\ UNCHANGED asideVars
  /\ UNCHANGED startVars
  /\ UNCHANGED reqVars
  /\ UNCHANGED attemptTrace
  /\ UNCHANGED <<steps, i, previousOutput, wfError, evCompleted, stVars, cmVars>>

\* after the loop: markExecutionCompleted, broadcast, return
AllStepsDone ==
  /\ pc = "mark_completed"
  /\ conns' = Released(conns)
  /\ pc' = "done"
  /\ \/ /\ execStatus' = "completed"
        /\ termWrites' = termWrites + 1
        /\ evCompleted' = evCompleted + 1
        /\ Notify
        /\ result' = "completed"
        /\ UNCHANGED failures
     \/ \* the UPDATE raises: outer catch, ROLLBACK, rethrow
        /\ Fault
        /\ result' = "raised"
        /\ UNCHANGED <<execStatus, termWrites, evCompleted, notifyRaised>>
  /\ UNCHANGED <<ws, swVars>>
  /\ UNCHANGED asideVars
  /\ UNCHANGED startVars
  /\ UNCHANGED reqVars
  /\ UNCHANGED attemptTrace
  /\ UNCHANGED <<steps, execError, i, previousOutput, wfError, evFailed, stVars,
                 cmVars>>

(* --------------- callModel: the read loop over the stream --------------- *)
\* most lines of a stream
MaxLines == 2

\* The stream is a sequence of characters.  "d" stands for the text  data
\* and ":" for the colon and the blank after it, so that the prefix can be cut
\* in two; "$" stands for [DONE]; a JSON payload is "{", then "a" (a
\* choices[0].delta.content of a) and / or "t" (a choices[0].text of t), then "}".
Prefix == <<"d", ":">>
Sentinel == <<"$">>
Newline == "\n"
Blank == " "

\* lines a backend can send: fragments in delta and in text, both, neither,
\* the sentinel, a payload cut short, an indented line, an empty line, a line
\* without the prefix
StreamLines ==
  { Prefix \o <<"{", "a", "}">>,
    Prefix \o <<"{", "t", "}">>,
    Prefix \o <<"{", "a", "t", "}">>,
    Prefix \o <<"{", "}">>,
    Prefix \o Sentinel,
    Prefix \o <<"{", "a">>,
    <<Blank>> \o Prefix \o <<"{", "a", "}">> \o <<Blank>>,
    <<>>,
    <<"{", "a", "}">> }

RECURSIVE JoinLines(_, _)
\* the lines ls, each ended by a newline; the last one only if terminated
JoinLines(ls, terminated) ==
  IF ls = <<>> THEN <<>>
  ELSE JoinLines(SubSeq(ls, 1, Len(ls) - 1), TRUE) \o ls[Len(ls)]
       \o (IF terminated THEN <<Newline>> ELSE <<>>)

Streams ==
  { JoinLines(ls, t) :
      ls \in UNION { [1..n -> StreamLines] : n \in 0..MaxLines },
      t \in BOOLEAN }

RECURSIVE SplitLines(_)
\* buffer.split('\n'): the pieces between newlines, the rest last
SplitLines(s) ==
  IF \A k \in DOMAIN s : s[k] # Newline THEN <<s>>
  ELSE LET k == CHOOSE j \in DOMAIN s :
                  s[j] = Newline /\ \A h \in 1..(j - 1) : s[h] # Newline
       IN  <<SubSeq(s, 1, k - 1)>> \o SplitLines(SubSeq(s, k + 1, Len(s)))

\* (variant: the rest after the last newline is thrown away)
KeptPartial_Dropped(lines) == <<>>

\* buffer = lines.pop()
KeptPartial(lines) == lines[Len(lines)]

\* the lines left in the array after lines.pop()
CompleteLines(lines) == SubSeq(lines, 1, Len(lines) - 1)

RECURSIVE Trim(_)
\* line.trim()
Trim(line) ==
  IF line = <<>> THEN line
  ELSE IF line[1] = Blank THEN Trim(SubSeq(line, 2, Len(line)))
  ELSE IF line[Len(line)] = Blank THEN Trim(SubSeq(line, 1, Len(line) - 1))
  ELSE line

\* trimmed.startsWith('data: ')
StartsWithPrefix(trimmed) ==
  /\ Len(trimmed) >= Len(Prefix)
  /\ SubSeq(trimmed, 1, Len(Prefix)) = Prefix

\* trimmed.substring(6)
DataStr(trimmed) == SubSeq(trimmed, Len(Prefix) + 1, Len(trimmed))

\* JSON.parse(dataStr) does not raise
WellFormed(dataStr) ==
  /\ Len(dataStr) >= 2
  /\ dataStr[1] = "{"
  /\ dataStr[Len(dataStr)] = "}"
  /\ SubSeq(dataStr, 2, Len(dataStr) - 1) \in {<<>>, <<"a">>, <<"t">>, <<"a", "t">>}

\* data.choices?.[0]?.delta?.content || data.choices?.[0]?.text || ''
Fragment(dataStr) ==
  LET fields == SubSeq(dataStr, 2, Len(dataStr) - 1)
      delta == SelectSeq(fields, LAMBDA c : c = "a")
      text == SelectSeq(fields, LAMBDA c : c = "t")
  IN  IF delta # <<>> THEN delta ELSE text

\* the body of  for (const line of lines)
ParseLine(line, content) ==
  LET trimmed == Trim(line) IN
  IF ~StartsWithPrefix(trimmed) THEN content
  ELSE IF DataStr(trimmed) = Sentinel THEN content
  ELSE IF WellFormed(DataStr(trimmed)) THEN content \o Fragment(DataStr(trimmed))
  ELSE content

RECURSIVE ParseLines(_, _)
\* for (const line of lines) { ... }
ParseLines(lines, content) ==
  IF lines = <<>> THEN content
  ELSE ParseLines(SubSeq(lines, 2, Len(lines)), ParseLine(lines[1], content))

StreamIdle ==
  /\ stream = <<>>
  /\ pos = 0
  /\ buffer = <<>>
  /\ streamText = <<>>
  /\ streamDone = TRUE

\* let fullContent = ''; let buffer = ''
StreamInit ==
  /\ stream \in Streams
  /\ pos = 0
  /\ buffer = <<>>
  /\ streamText = <<>>
  /\ streamDone = FALSE

\* reader.read() hands over the next n characters: decode, append to the
\* buffer, split, keep the rest, parse the complete lines
ReadChunk ==
  /\ ~streamDone
  /\ \E n \in 1..(Len(stream) - pos) :
       LET chunk == SubSeq(stream, pos + 1, pos + n)
           lines == SplitLines(buffer \o chunk)
       IN  /\ pos' = pos + n
           /\ buffer' = KeptPartial(lines)
           /\ streamText' = ParseLines(CompleteLines(lines), streamText)
  /\ UNCHANGED <<stream, streamDone>>
  /\ UNCHANGED execVars
  /\ UNCHANGED <<critVars, orderVars, concVars, promptVars, socketVars, editVars, viewVars>>

\* reader.read() gives done: break
ReadDone ==
  /\ ~streamDone
  /\ pos = Len(stream)
  /\ streamDone' = TRUE
  /\ UNCHANGED <<stream, pos, buffer, streamText>>
  /\ UNCHANGED execVars
  /\ UNCHANGED <<critVars, orderVars, concVars, promptVars, socketVars, editVars, viewVars>>

(* ------------------------ evaluateCriteria ------------------------------ *)
\* longest output
MaxOutputLen == 2

\* Characters of outputs and of criteria values: a letter in both cases, a
\* digit, "#" for a code fence and "(" for a pattern RegExp rejects.
OutputChars == {"a", "A", "1", "#"}
Outputs == UNION { [1..n -> OutputChars] : n \in 1..MaxOutputLen }

\* JavaScript values a criteria value can be
JsString(s) == [t |-> "string", s |-> s, n |-> 0]
JsNumber(n) == [t |-> "number", s |-> <<>>, n |-> n]
JsNull == [t |-> "null", s |-> <<>>, n |-> 0]
JsUndefined == [t |-> "undefined", s |-> <<>>, n |-> 0]
CriteriaValues ==
  { JsString(<<"a">>), JsString(<<"A">>), JsString(<<"(">>), JsString(<<"1">>),
    JsString(<<>>), JsNumber(1), JsNumber(2), JsNumber(3), JsNull, JsUndefined }

\* the cases of the switch, a type it does not know and no type at all
CriteriaTypes ==
  { "contains_text", "regex_match", "valid_json", "contains_code",
    "min_length", "llm_judge", "other", "undefined" }
MissingCriteria == [type |-> "missing", value |-> JsNull]
CriteriaSet ==
  [type : CriteriaTypes, value : CriteriaValues] \cup {MissingCriteria}

\* what callModel does for the judge: it raises, or returns this content
JudgeThrows == <<"throws">>
JudgeOutcomes == {JudgeThrows, <<"YES", "a">>, <<"yes">>, <<"NO">>, <<"a", "YES">>}

\* String.prototype.toLowerCase / toUpperCase
LowerChar(c) == IF c = "A" THEN "a" ELSE IF c = "YES" THEN "yes" ELSE c
UpperChar(c) == IF c = "a" THEN "A" ELSE IF c = "yes" THEN "YES" ELSE c
ToLowerCase(s) == [x \in DOMAIN s |-> LowerChar(s[x])]
ToUpperCase(s) == [x \in DOMAIN s |-> UpperChar(s[x])]

\* String.prototype.includes
Includes(s, sub) ==
  \E x \in 0..(Len(s) - Len(sub)) : SubSeq(s, x + 1, x + Len(sub)) = sub

\* String(n) for the numbers of CriteriaValues
NumberToString(n) ==
  IF n = 1 THEN <<"1">> ELSE IF n = 2 THEN <<"2">> ELSE IF n = 3 THEN <<"3">> ELSE <<"0">>

\* the pattern new RegExp(value) compiles: undefined gives the empty pattern,
\* anything else its string
PatternOf(v) ==
  IF v.t = "string" THEN v.s
  ELSE IF v.t = "number" THEN NumberToString(v.n)
  ELSE IF v.t = "null" THEN <<"n", "u", "l", "l">>
  ELSE <<>>

\* new RegExp(pattern) raises a SyntaxError
PatternInvalid(p) == \E x \in DOMAIN p : p[x] = "("

\* Number(value) as >= uses it: NaN, or a number
IsNaN(v) ==
  \/ v.t = "undefined"
  \/ v.t = "string" /\ \E x \in DOMAIN v.s : v.s[x] # "1"
RECURSIVE DigitsValue(_)
DigitsValue(s) == IF s = <<>> THEN 0 ELSE 10 * DigitsValue(SubSeq(s, 1, Len(s) - 1)) + 1
ToNumber(v) ==
  IF v.t = "number" THEN v.n
  ELSE IF v.t = "string" THEN DigitsValue(v.s)
  ELSE 0

\* JSON.parse(output) does not raise
IsJson(output) == \A x \in DOMAIN output : output[x] = "1"

Thrown == [threw |-> TRUE, passed |-> FALSE, reason |-> "thrown"]
Verdict(passed) ==
  [threw |-> FALSE, passed |-> passed, reason |-> IF passed THEN "met" ELSE "not_met"]

\* (variant: the length must exceed the value)
MinLengthMet_Strict(output, value) == ~IsNaN(value) /\ Len(output) > ToNumber(value)

\* output.length >= criteria.value
MinLengthMet(output, value) == ~IsNaN(value) /\ Len(output) >= ToNumber(value)

\* the switch (criteria.type) of evaluateCriteria, with what it throws
CriteriaSwitch(output, c, judge) ==
  IF c = MissingCriteria THEN Thrown
  ELSE IF c.type = "contains_text"
    THEN IF c.value.t # "string" THEN Thrown
         ELSE Verdict(Includes(ToLowerCase(output), ToLowerCase(c.value.s)))
  ELSE IF c.type = "regex_match"
    THEN IF PatternInvalid(PatternOf(c.value)) THEN Thrown
         ELSE Verdict(Includes(output, PatternOf(c.value)))
  ELSE IF c.type = "valid_json" THEN Verdict(IsJson(output))
  ELSE IF c.type = "contains_code" THEN Verdict(Includes(output, <<"#">>))
  ELSE IF c.type = "min_length" THEN Verdict(MinLengthMet(output, c.value))
  ELSE IF c.type = "llm_judge"
    THEN IF judge = JudgeThrows THEN Thrown
         ELSE [threw |-> FALSE,
               passed |-> ToUpperCase(judge)[1] = "YES",
               reason |-> "judge"]
  ELSE [threw |-> FALSE, passed |-> FALSE, reason |-> "unknown_type"]

\* evaluateCriteria(output, criteria): try { switch } catch { passed = false }
EvaluateCriteria(output, c, judge) ==
  LET r == CriteriaSwitch(output, c, judge) IN
  IF r.threw
  THEN [raised |-> FALSE, passed |-> FALSE, reason |-> "error"]
  ELSE [raised |-> FALSE, passed |-> r.passed, reason |-> r.reason]

NoResult == [raised |-> FALSE, passed |-> FALSE, reason |-> "none"]

CriteriaIdle ==
  /\ critOutput = <<>>
  /\ critCriteria = MissingCriteria
  /\ critJudge = JudgeThrows
  /\ critResult = NoResult

CriteriaInit ==
  /\ critOutput \in Outputs
  /\ critCriteria \in CriteriaSet
  /\ critJudge \in JudgeOutcomes
  /\ critResult = NoResult

\* one call of evaluateCriteria
Evaluate ==
  /\ critResult = NoResult
  /\ critResult' = EvaluateCriteria(critOutput, critCriteria, critJudge)
  /\ UNCHANGED <<critOutput, critCriteria, critJudge>>
  /\ UNCHANGED execVars
  /\ UNCHANGED <<streamVars, orderVars, concVars, promptVars, socketVars, editVars, viewVars>>

(* ---------------- the step routes: add, delete, reorder ----------------- *)
\* ids the SERIAL column hands out, and the longest stepIds of a reorder
MaxIds == 3
MaxReorderLen == 3

StepIds == 1..MaxIds
\* an id that is no step of this workflow
ForeignId == 0
NoPending == 0

\* UNIQUE(workflow_id, step_order): no two rows of the workflow with one order
UniqueOrders(r) ==
  \A a, b \in DOMAIN r : a # b => r[a] # r[b]

RECURSIVE MaxOrder(_)
\* SELECT COALESCE(MAX(step_order), 0)
MaxOrder(r) ==
  IF DOMAIN r = {} THEN 0
  ELSE LET a == CHOOSE b \in DOMAIN r : \A c \in DOMAIN r : r[c] <= r[b]
       IN  r[a]

\* UPDATE ... SET step_order = step_order - 1 WHERE step_order > o
ShiftDown(r, o) ==
  [a \in DOMAIN r |-> IF r[a] > o THEN r[a] - 1 ELSE r[a]]

\* the UPDATE visits a row whose new order another row still holds
ShiftMayCollide(r, o) ==
  \E a, b \in DOMAIN r : a # b /\ r[a] > o /\ r[b] > o /\ r[b] = r[a] - 1

RECURSIVE ReorderFrom(_, _, _)
\* the loop of the reorder route from statement k on: the rows after it, or
\* <<>> in place of them when a statement violates the constraint
ReorderFrom(r, stepIds, k) ==
  IF k > Len(stepIds) THEN <<r>>
  ELSE IF stepIds[k] \notin DOMAIN r THEN ReorderFrom(r, stepIds, k + 1)
  ELSE LET r2 == [r EXCEPT ![stepIds[k]] = k] IN
       IF UniqueOrders(r2) THEN ReorderFrom(r2, stepIds, k + 1) ELSE <<>>

OrderIdle ==
  /\ rows = <<>>
  /\ nextId = MaxIds + 1
  /\ pendingAdd = NoPending

\* a workflow as POST /api/workflows creates it: no steps
OrderInit ==
  /\ rows = <<>>
  /\ nextId = 1
  /\ pendingAdd = NoPending

\* POST /api/workflows/:id/steps up to the SELECT of the next order
AddSelect ==
  /\ pendingAdd = NoPending
  /\ nextId <= MaxIds
  /\ pendingAdd' = MaxOrder(rows) + 1
  /\ UNCHANGED <<rows, nextId>>
  /\ UNCHANGED execVars
  /\ UNCHANGED <<streamVars, critVars, concVars, promptVars, socketVars, editVars, viewVars>>

\* the rest of it: INSERT and COMMIT, or ROLLBACK when the order is taken
AddInsert ==
  /\ pendingAdd # NoPending
  /\ IF \E a \in DOMAIN rows : rows[a] = pendingAdd
     THEN UNCHANGED rows
     ELSE rows' = [a \in DOMAIN rows \cup {nextId} |->
                     IF a = nextId THEN pendingAdd ELSE rows[a]]
  /\ nextId' = nextId + 1
  /\ pendingAdd' = NoPending
  /\ UNCHANGED execVars
  /\ UNCHANGED <<streamVars, critVars, concVars, promptVars, socketVars, editVars, viewVars>>

\* DELETE /api/steps/:id
DeleteStep ==
  /\ \E id \in StepIds :
       IF id \notin DOMAIN rows
       THEN UNCHANGED rows
       ELSE LET rest == [a \in DOMAIN rows \ {id} |-> rows[a]] IN
            \/ rows' = ShiftDown(rest, rows[id])
            \/ /\ ShiftMayCollide(rest, rows[id])
               /\ UNCHANGED rows
  /\ UNCHANGED <<nextId, pendingAdd>>
  /\ UNCHANGED execVars
  /\ UNCHANGED <<streamVars, critVars, concVars, promptVars, socketVars, editVars, viewVars>>

\* PUT /api/workflows/:id/steps/reorder
ReorderSteps ==
  /\ \E n \in 0..MaxReorderLen :
       \E stepIds \in [1..n -> StepIds \cup {ForeignId}] :
         LET after == ReorderFrom(rows, stepIds, 1) IN
         IF after = <<>> THEN UNCHANGED rows ELSE rows' = after[1]
  /\ UNCHANGED <<nextId, pendingAdd>>
  /\ UNCHANGED execVars
  /\ UNCHANGED <<streamVars, critVars, concVars, promptVars, socketVars, editVars, viewVars>>

(* ------------- executions started concurrently (one pool) --------------- *)
\* runs started concurrently, and the largest pool
NumRuns == 2
MaxPool == 4

Runs == 1..NumRuns
\* connections one run needs at once: the one executeWorkflow holds, the one
\* the attempt holds, and the one pool.query takes for a statement
ConnsPerRun == 3
PoolSizes == ConnsPerRun..MaxPool
\* stored max_retries of the step the runs execute
ConcMaxRetries == 1
\* per attempt: do the criteria pass
Scripts == [1..(ConcMaxRetries + 1) -> BOOLEAN]

RECURSIVE HeldUpTo(_)
HeldUpTo(n) == IF n = 0 THEN 0 ELSE runHeld[n] + HeldUpTo(n - 1)
\* idle connections of the pool
Free == poolSize - HeldUpTo(NumRuns)

\* UPDATE ... WHERE id = k, issued by run r
WriteRow(table, k, r, status) ==
  [table EXCEPT ![k].status = status, ![k].writers = @ \cup {r}]

ConcIdle ==
  /\ poolSize = ConnsPerRun
  /\ runPc = [r \in Runs |-> "done"]
  /\ runHeld = [r \in Runs |-> 0]
  /\ runScript = [r \in Runs |-> [k \in 1..(ConcMaxRetries + 1) |-> TRUE]]
  /\ runExecId = [r \in Runs |-> NoId]
  /\ runStepExecId = [r \in Runs |-> NoId]
  /\ runRetry = [r \in Runs |-> 0]
  /\ runModel = [r \in Runs |-> NoModel]
  /\ runSwitched = [r \in Runs |-> FALSE]
  /\ runResult = [r \in Runs |-> "none"]
  /\ executions = <<>>
  /\ stepExecutions = <<>>
  /\ stepModel = NoModel

\* POST /api/workflows/:id/execute served for every run, no row written yet;
\* the workflow's step names a model callModel replaces
ConcInit ==
  /\ poolSize \in PoolSizes
  /\ runPc = [r \in Runs |-> "wf_connect"]
  /\ runHeld = [r \in Runs |-> 0]
  /\ runScript \in [Runs -> Scripts]
  /\ runExecId = [r \in Runs |-> NoId]
  /\ runStepExecId = [r \in Runs |-> NoId]
  /\ runRetry = [r \in Runs |-> 0]
  /\ runModel = [r \in Runs |-> NoModel]
  /\ runSwitched = [r \in Runs |-> FALSE]
  /\ runResult = [r \in Runs |-> "none"]
  /\ executions = <<>>
  /\ stepExecutions = <<>>
  /\ stepModel \in DeprecatedModels

ConcFrame ==
  /\ UNCHANGED execVars
  /\ UNCHANGED <<streamVars, critVars, orderVars, promptVars, socketVars, editVars, viewVars>>

\* executeWorkflow: const client = await pool.connect()
WfConnect(r) ==
  /\ runPc[r] = "wf_connect"
  /\ Free > 0
  /\ runHeld' = [runHeld EXCEPT ![r] = @ + 1]
  /\ runPc' = [runPc EXCEPT ![r] = "wf_insert"]
  /\ UNCHANGED <<poolSize, runScript, runExecId, runStepExecId, runRetry,
                 runModel, runSwitched, runResult, executions,
                 stepExecutions, stepModel>>
  /\ ConcFrame

\* BEGIN, INSERT INTO workflow_executions, SELECT the steps, COMMIT
WfInsert(r) ==
  /\ runPc[r] = "wf_insert"
  /\ executions' = Append(executions,
                          [creator |-> r, status |-> "running", writers |-> {r}])
  /\ runExecId' = [runExecId EXCEPT ![r] = Len(executions) + 1]
  /\ runModel' = [runModel EXCEPT ![r] = stepModel]
  /\ runPc' = [runPc EXCEPT ![r] = "st_connect"]
  /\ UNCHANGED <<poolSize, runHeld, runScript, runStepExecId, runRetry,
                 runSwitched, runResult, stepExecutions, stepModel>>
  /\ ConcFrame

\* executeStep: const client = await pool.connect()
StConnect(r) ==
  /\ runPc[r] = "st_connect"
  /\ Free > 0
  /\ runHeld' = [runHeld EXCEPT ![r] = @ + 1]
  /\ runPc' = [runPc EXCEPT ![r] = "st_insert"]
  /\ UNCHANGED <<poolSize, runScript, runExecId, runStepExecId, runRetry,
                 runModel, runSwitched, runResult, executions,
                 stepExecutions, stepModel>>
  /\ ConcFrame

\* BEGIN, INSERT INTO step_executions, COMMIT
StInsert(r) ==
  /\ runPc[r] = "st_insert"
  /\ stepExecutions' =
       Append(stepExecutions,
              [execution_id |-> runExecId[r], creator |-> r,
               retry_count |-> runRetry[r], status |-> "running",
               writers |-> {r}])
  /\ runStepExecId' = [runStepExecId EXCEPT ![r] = Len(stepExecutions) + 1]
  /\ runPc' = [runPc EXCEPT ![r] = "st_prompt"]
  /\ UNCHANGED <<poolSize, runHeld, runScript, runExecId, runRetry, runModel,
                 runSwitched, runResult, executions, stepModel>>
  /\ ConcFrame

\* pool.query: UPDATE step_executions SET prompt_sent WHERE id = stepExecutionId
StPrompt(r) ==
  /\ runPc[r] = "st_prompt"
  /\ Free > 0
  /\ stepExecutions' = WriteRow(stepExecutions, runStepExecId[r], r, "running")
  /\ runPc' = [runPc EXCEPT ![r] = "st_call"]
  /\ UNCHANGED <<poolSize, runHeld, runScript, runExecId, runStepExecId,
                 runRetry, runModel, runSwitched, runResult, executions,
                 stepModel>>
  /\ ConcFrame

\* callModel, the UPDATE of workflow_steps.model when it switched, the UPDATE of
\* llm_response, evaluateCriteria and the UPDATE of criteria_result and status
StCall(r) ==
  /\ runPc[r] = "st_call"
  /\ Free > 0
  /\ IF SwitchedOf(runModel[r])
     THEN /\ stepModel' = PersistedModel(runModel[r], UsedModelOf(runModel[r]))
          /\ runSwitched' = [runSwitched EXCEPT ![r] = TRUE]
     ELSE UNCHANGED <<stepModel, runSwitched>>
  /\ stepExecutions' =
       WriteRow(stepExecutions, runStepExecId[r], r,
                IF runScript[r][runRetry[r] + 1] THEN "completed" ELSE "failed")
  /\ runPc' = [runPc EXCEPT ![r] = "st_release"]
  /\ UNCHANGED <<poolSize, runHeld, runScript, runExecId, runStepExecId,
                 runRetry, runModel, runResult, executions>>
  /\ ConcFrame

\* return or retryCount++, and finally client.release()
StRelease(r) ==
  /\ runPc[r] = "st_release"
  /\ runHeld' = [runHeld EXCEPT ![r] = @ - 1]
  /\ IF runScript[r][runRetry[r] + 1]
     THEN /\ runResult' = [runResult EXCEPT ![r] = "completed"]
          /\ runPc' = [runPc EXCEPT ![r] = "wf_mark"]
          /\ UNCHANGED runRetry
     ELSE /\ runRetry' = [runRetry EXCEPT ![r] = @ + 1]
          /\ IF runRetry[r] + 1 > ConcMaxRetries
             THEN /\ runResult' = [runResult EXCEPT ![r] = "failed"]
                  /\ runPc' = [runPc EXCEPT ![r] = "wf_mark"]
             ELSE /\ runPc' = [runPc EXCEPT ![r] = "st_connect"]
                  /\ UNCHANGED runResult
  /\ UNCHANGED <<poolSize, runScript, runExecId, runStepExecId, runModel,
                 runSwitched, executions, stepExecutions, stepModel>>
  /\ ConcFrame

\* markExecutionCompleted / markExecutionFailed: pool.query UPDATE ... WHERE id
WfMark(r) ==
  /\ runPc[r] = "wf_mark"
  /\ Free > 0
  /\ executions' = WriteRow(executions, runExecId[r], r, runResult[r])
  /\ runPc' = [runPc EXCEPT ![r] = "wf_release"]
  /\ UNCHANGED <<poolSize, runHeld, runScript, runExecId, runStepExecId,
                 runRetry, runModel, runSwitched, runResult, stepExecutions,
                 stepModel>>
  /\ ConcFrame

\* return { executionId, status }, and finally client.release()
WfRelease(r) ==
  /\ runPc[r] = "wf_release"
  /\ runHeld' = [runHeld EXCEPT ![r] = @ - 1]
  /\ runPc' = [runPc EXCEPT ![r] = "done"]
  /\ UNCHANGED <<poolSize, runScript, runExecId, runStepExecId, runRetry,
                 runModel, runSwitched, runResult, executions,
                 stepExecutions, stepModel>>
  /\ ConcFrame

(* ----------------------------- buildPrompt ------------------------------ *)
\* longest previous output enumerated character by character
MaxPrevLen == 4

\* previousOutput.substring(0, 500), previousOutput.length > 500
SummaryLimit == 500

\* 'Context from previous step:' as one character, '...' as three
Header == <<"Context from previous step:">>
Ellipsis == <<".", ".", ".">>
\* "#" stands for a code fence
Fence == "#"
PrevChars == {"x", Fence, "\n"}

\* a long output whose characters differ from place to place
LongOutput(n) ==
  [k \in 1..n |-> IF k % 3 = 1 THEN "x" ELSE IF k % 3 = 2 THEN "y" ELSE "\n"]

\* what executeWorkflow passes: null (NoOutput) or a step's response, which
\* is never empty
PreviousOutputs ==
  {NoOutput}
  \cup UNION { [1..n -> PrevChars] : n \in 1..MaxPrevLen }
  \cup { LongOutput(n) : n \in (SummaryLimit - 1)..(SummaryLimit + 2) }

\* step.context_strategy: the three the switch knows, another, and NULL
Strategies == {"full", "summary", "code_only", "other", "null"}
Prompts == {<<"p">>, <<"p", "\n", "q">>}
PromptSteps == [prompt : Prompts, context_strategy : Strategies]

\* (variant: the ellipsis is appended from 500 characters on)
Summary_Inclusive(prev) ==
  SubSeq(prev, 1, SummaryLimit)
  \o (IF Len(prev) >= SummaryLimit THEN Ellipsis ELSE <<>>)

\* previousOutput.substring(0, 500) + (previousOutput.length > 500 ? '...' : '')
Summary(prev) ==
  SubSeq(prev, 1, IF Len(prev) < SummaryLimit THEN Len(prev) ELSE SummaryLimit)
  \o (IF Len(prev) > SummaryLimit THEN Ellipsis ELSE <<>>)

\* the place of the first fence of s, 0 if it has none
FirstFence(s) ==
  IF \A k \in DOMAIN s : s[k] # Fence THEN 0
  ELSE CHOOSE k \in DOMAIN s : s[k] = Fence /\ \A h \in 1..(k - 1) : s[h] # Fence

RECURSIVE CodeBlocks(_)
\* previousOutput.match(/```[\s\S]*?```/g): the blocks, <<>> for null
CodeBlocks(s) ==
  LET a == FirstFence(s) IN
  IF a = 0 THEN <<>>
  ELSE LET b == FirstFence(SubSeq(s, a + 1, Len(s))) IN
       IF b = 0 THEN <<>>
       ELSE <<SubSeq(s, a, a + b)>> \o CodeBlocks(SubSeq(s, a + b + 1, Len(s)))

RECURSIVE JoinBlocks(_)
\* codeMatch.join('\n\n')
JoinBlocks(blocks) ==
  IF Len(blocks) = 1 THEN blocks[1]
  ELSE blocks[1] \o <<"\n", "\n">> \o JoinBlocks(SubSeq(blocks, 2, Len(blocks)))

\* step.context_strategy || 'full'
StrategyOf(step) ==
  IF step.context_strategy = "null" THEN "full" ELSE step.context_strategy

\* the switch (contextStrategy)
ContextOf(step, prev) ==
  IF StrategyOf(step) = "full" THEN prev
  ELSE IF StrategyOf(step) = "summary" THEN Summary(prev)
  ELSE IF StrategyOf(step) = "code_only"
    THEN IF CodeBlocks(prev) # <<>> THEN JoinBlocks(CodeBlocks(prev)) ELSE prev
  ELSE prev

\* (variant: the prompt follows the context on the next line)
Framed_NoBlankLine(context, prompt) ==
  Header \o <<"\n">> \o context \o <<"\n">> \o prompt

\* `Context from previous step:\n${context}\n\n${prompt}`
Framed(context, prompt) ==
  Header \o <<"\n">> \o context \o <<"\n", "\n">> \o prompt

\* (variant: the previous output is never used)
BuildPromptOf_Raw(step, prev) == step.prompt

\* buildPrompt(step, previousOutput)
BuildPromptOf(step, prev) ==
  IF prev # NoOutput THEN Framed(ContextOf(step, prev), step.prompt)
  ELSE step.prompt

NoPrompt == <<>>

PromptIdle ==
  /\ bpStep = [prompt |-> <<"p">>, context_strategy |-> "null"]
  /\ bpPrev = NoOutput
  /\ bpContext = NoOutput
  /\ bpResult = NoPrompt

PromptInit ==
  /\ bpStep \in PromptSteps
  /\ bpPrev \in PreviousOutputs
  /\ bpContext = NoOutput
  /\ bpResult = NoPrompt

\* one call of buildPrompt
BuildPrompt ==
  /\ bpResult = NoPrompt
  /\ bpContext' = IF bpPrev # NoOutput THEN ContextOf(bpStep, bpPrev) ELSE NoOutput
  /\ bpResult' = BuildPromptOf(bpStep, bpPrev)
  /\ UNCHANGED <<bpStep, bpPrev>>
  /\ UNCHANGED execVars
  /\ UNCHANGED <<streamVars, critVars, orderVars, concVars, socketVars, editVars, viewVars>>

(* ------------- WorkflowWebSocket: connections, heartbeat, broadcast ------ *)
\* heartbeat ticks per connection and broadcasts explored
MaxTicks == 3
MaxBroadcasts == 1

\* data.length > 1024 * 10
LargeThreshold == 10240

Conns == 1..MaxClients
\* data.length of the messages broadcast: small, at the threshold, above it
MessageSizes == {1, LargeThreshold, LargeThreshold + 1}

\* a socket nobody has connected yet.  state is the readyState, alive is
\* ws.isAlive, timer the interval of the heartbeat, closeDue a 'close' event
\* not yet handled; the rest records what happened: pingDue a ping without a
\* pong yet, pongSince a pong since the last tick, missed a tick that found a
\* ping unanswered, quiet a tick with no pong since the tick before it,
\* terminated the readyState terminate() found ("no": never called), errored
\* an 'error' event
NoSocket ==
  [state |-> "none", alive |-> TRUE, timer |-> FALSE, closeDue |-> FALSE,
   ticks |-> 0, pingDue |-> FALSE, pongSince |-> FALSE, missed |-> FALSE,
   quiet |-> FALSE, terminated |-> "no", errored |-> FALSE]

SocketIdle ==
  /\ socks = [c \in Conns |-> NoSocket]
  /\ wsClients = {}
  /\ inbox = [c \in Conns |-> <<>>]
  /\ broadcasts = <<>>
  /\ wsOn = FALSE

\* new WorkflowWebSocket(port): this.clients = new Set()
SocketInit ==
  /\ socks = [c \in Conns |-> NoSocket]
  /\ wsClients = {}
  /\ inbox = [c \in Conns |-> <<>>]
  /\ broadcasts = <<>>
  /\ wsOn = TRUE

SocketFrame ==
  /\ UNCHANGED wsOn
  /\ UNCHANGED execVars
  /\ UNCHANGED <<streamVars, critVars, orderVars, concVars, promptVars, editVars, viewVars>>

\* wss.on('connection'): add to the set, register the handlers, send the
\* welcome message, isAlive = true, start the interval
SockConnect(c) ==
  /\ wsOn
  /\ socks[c].state = "none"
  /\ socks' = [socks EXCEPT ![c].state = "open", ![c].alive = TRUE,
                            ![c].timer = TRUE]
  /\ wsClients' = wsClients \cup {c}
  /\ UNCHANGED <<inbox, broadcasts>>
  /\ SocketFrame

\* if (ws.isAlive === false) return ws.terminate()
TickTerminates(s) == s.alive = FALSE

\* the callback of setInterval
Tick(c) ==
  /\ socks[c].timer
  /\ socks[c].ticks < MaxTicks
  /\ LET s == socks[c]
         seen == [s EXCEPT !.ticks = @ + 1,
                           !.missed = @ \/ s.pingDue,
                           !.quiet = @ \/ (s.ticks >= 1 /\ ~s.pongSince),
                           !.pongSince = FALSE]
     IN  IF TickTerminates(s)
         THEN socks' = [socks EXCEPT ![c] =
                [seen EXCEPT !.terminated = IF s.terminated = "no" THEN s.state ELSE @,
                             !.state = "closed",
                             !.closeDue = @ \/ s.state = "open"]]
         ELSE socks' = [socks EXCEPT ![c] =
                [seen EXCEPT !.alive = FALSE,
                             !.pingDue = @ \/ s.state = "open"]]
  /\ UNCHANGED <<wsClients, inbox, broadcasts>>
  /\ SocketFrame

\* (variant: a pong leaves isAlive as it was)
AliveAfterPong_Ignored(s) == s.alive

\* else if (data.type === 'pong') ws.isAlive = true
AliveAfterPong(s) == TRUE

\* ws.on('message') with { type: 'pong' }
Pong(c) ==
  /\ socks[c].state = "open"
  /\ socks' = [socks EXCEPT ![c].alive = AliveAfterPong(socks[c]),
                            ![c].pingDue = FALSE,
                            ![c].pongSince = TRUE]
  /\ UNCHANGED <<wsClients, inbox, broadcasts>>
  /\ SocketFrame

\* the client goes away: the socket closes, 'close' will be emitted
ClientGone(c) ==
  /\ socks[c].state = "open"
  /\ socks' = [socks EXCEPT ![c].state = "closed", ![c].closeDue = TRUE]
  /\ UNCHANGED <<wsClients, inbox, broadcasts>>
  /\ SocketFrame

\* ws.on('error'): this.clients.delete(ws); the socket is then destroyed
SockError(c) ==
  /\ socks[c].state = "open"
  /\ socks' = [socks EXCEPT ![c].state = "closing", ![c].closeDue = TRUE,
                            ![c].errored = TRUE]
  /\ wsClients' = wsClients \ {c}
  /\ UNCHANGED <<inbox, broadcasts>>
  /\ SocketFrame

\* ws.on('close'): clearInterval(pingInterval); this.clients.delete(ws)
CloseEvent(c) ==
  /\ socks[c].closeDue
  /\ socks' = [socks EXCEPT ![c].state = "closed", ![c].closeDue = FALSE,
                            ![c].timer = FALSE]
  /\ wsClients' = wsClients \ {c}
  /\ UNCHANGED <<inbox, broadcasts>>
  /\ SocketFrame

\* if (data.length > 1024 * 10) console.warn(...)
Flagged(size) == size > LargeThreshold

\* (variant: forEach without the readyState test)
Targets_All(size) == wsClients

\* this.clients.forEach: the clients with readyState === 1
Targets(size) == {c \in wsClients : socks[c].state = "open"}

\* (variant: the first send that raises ends the loop)
Reached_UntilRaise(targets, raising) ==
  {c \in targets : \A d \in raising : c < d}

\* try { client.send(data) } catch: the clients whose send went through
Reached(targets, raising) == targets \ raising

\* broadcast(message) with a string of the given length; raising are the
\* clients whose send raises this time
Broadcast ==
  /\ wsOn
  /\ Len(broadcasts) < MaxBroadcasts
  /\ \E size \in MessageSizes :
       \E raising \in SUBSET Targets(size) :
         LET id == Len(broadcasts) + 1
             got == Reached(Targets(size), raising)
         IN  /\ inbox' = [c \in Conns |->
                            IF c \in got THEN Append(inbox[c], id) ELSE inbox[c]]
             /\ broadcasts' = Append(broadcasts,
                  [size |-> size, flagged |-> Flagged(size),
                   open |-> {c \in wsClients : socks[c].state = "open"},
                   raised |-> raising])
  /\ UNCHANGED <<socks, wsClients>>
  /\ SocketFrame

(* ------------- a run while the step routes edit its workflow ------------ *)
\* most PUT /api/steps/:id requests explored
MaxEdits == 1

\* nothing of it is part of the specification
EditIdle ==
  /\ rowCfg = [id \in StepIds |-> 0]
  /\ snapshot = <<>>
  /\ stepsRun = <<>>
  /\ snapResult = "idle"
  /\ snapFailedBy = "none"

\* no run yet; rowCfg[id] counts the updates of the row with that id
EditInit ==
  /\ rowCfg = [id \in StepIds |-> 0]
  /\ snapshot = <<>>
  /\ stepsRun = <<>>
  /\ snapResult = "none"
  /\ snapFailedBy = "none"

EditFrame ==
  /\ UNCHANGED execVars
  /\ UNCHANGED <<streamVars, critVars, concVars, promptVars, socketVars, viewVars>>

RECURSIVE InOrder(_)
\* SELECT * FROM workflow_steps WHERE workflow_id = $1 ORDER BY step_order ASC
InOrder(r) ==
  IF DOMAIN r = {} THEN <<>>
  ELSE LET a == CHOOSE b \in DOMAIN r : \A c \in DOMAIN r : r[b] <= r[c]
       IN  <<[id |-> a, cfg |-> rowCfg[a]]>>
             \o InOrder([b \in DOMAIN r \ {a} |-> r[b]])

\* PUT /api/steps/:id: UPDATE workflow_steps SET name, model, prompt,
\* completion_criteria, context_strategy, max_retries WHERE id (404 without
\* row); the requests that arrive while the run is in flight
UpdateStep ==
  /\ snapResult = "running"
  /\ \E id \in StepIds :
       /\ rowCfg[id] < MaxEdits
       /\ rowCfg' = IF id \in DOMAIN rows
                    THEN [rowCfg EXCEPT ![id] = @ + 1] ELSE rowCfg
  /\ UNCHANGED <<snapshot, stepsRun, snapResult, snapFailedBy>>
  /\ UNCHANGED orderVars
  /\ EditFrame

\* executeWorkflow: INSERT the execution, SELECT the steps, COMMIT
SnapStart ==
  /\ snapResult = "none"
  /\ snapshot' = InOrder(rows)
  /\ snapResult' = "running"
  /\ UNCHANGED <<rowCfg, stepsRun, snapFailedBy>>
  /\ UNCHANGED orderVars
  /\ EditFrame

\* INSERT INTO step_executions (execution_id, step_id, ...): step_id
\* REFERENCES workflow_steps(id), the row of the step has to exist
StepRowNeeded(id) == id \in DOMAIN rows

\* one turn of the loop of executeWorkflow: executeStep(steps[i]) to its result,
\* or the end of the loop
SnapStep ==
  /\ snapResult = "running"
  /\ IF Len(stepsRun) = Len(snapshot)
     THEN /\ snapResult' = "completed"
          /\ UNCHANGED <<stepsRun, snapFailedBy>>
     ELSE LET step == snapshot[Len(stepsRun) + 1] IN
          IF StepRowNeeded(step.id)
          THEN \/ \* the step completes
                  /\ stepsRun' = Append(stepsRun, step)
                  /\ UNCHANGED <<snapResult, snapFailedBy>>
               \/ \* its criteria fail on every attempt
                  /\ stepsRun' = Append(stepsRun, step)
                  /\ snapResult' = "failed"
                  /\ snapFailedBy' = "criteria"
          ELSE \* every attempt raises at its INSERT: the step fails without
               \* a call of the gateway
               /\ snapResult' = "failed"
               /\ snapFailedBy' = "missing_row"
               /\ UNCHANGED stepsRun
  /\ UNCHANGED <<rowCfg, snapshot>>
  /\ UNCHANGED orderVars
  /\ EditFrame

(* ------------- the execution view of the frontend (SpecView) ----------- *)
\* sockets one mounted view creates, and messages it is sent
MaxSockets == 3
MaxDeliveries == 2

\* useParams().id of the view, and another workflow of the same server
ViewedWorkflow == 1
WorkflowIds == {1, 2}
\* step_name values: the viewed workflow has one step, called "a"
ViewStepNames == {"a", "b"}
NoStepName == "none"
NoStepUpdate == "none"

\* what the executor broadcasts to every client. workflow is the workflow of
\* the execution the message belongs to; the message carries executionId only
ExecutionUpdates ==
  [type : {"execution_update"}, workflow : WorkflowIds,
   status : {"running", "completed"}, currentStep : {0, 1},
   stepName : ViewStepNames \cup {NoStepName},
   stepUpdate : {NoStepUpdate, "calling_llm"}, newModel : {NoModel}]
ModelSwitches ==
  [type : {"model_switched"}, workflow : WorkflowIds, status : {"none"},
   currentStep : {0}, stepName : ViewStepNames, stepUpdate : {NoStepUpdate},
   newModel : {FallbackModel}]
\* the welcome message of the server
Connected ==
  [type |-> "connected", workflow |-> 0, status |-> "none", currentStep |-> 0,
   stepName |-> NoStepName, stepUpdate |-> NoStepUpdate, newModel |-> NoModel]
ViewMessages == ExecutionUpdates \cup ModelSwitches \cup {Connected}

\* useState(null) of execution, and what GET /api/executions/:id returns for
\* the latest execution of the viewed workflow
NoExecution == [loaded |-> FALSE, status |-> "none", model |-> NoModel]
LatestExecution == [loaded |-> TRUE, status |-> "running", model |-> "gpt-4o"]
\* useState({ current: 0, total: 0, status: 'running' })
InitialProgress == [current |-> 0, status |-> "running", stepName |-> NoStepName]
\* let ws = null
NoViewSocket == [state |-> "none", onclose |-> FALSE, clientPing |-> FALSE]

ViewIdle ==
  /\ isMounted = FALSE
  /\ isConnected = FALSE
  /\ progress = InitialProgress
  /\ execution = NoExecution
  /\ viewWs = NoViewSocket
  /\ connectTimers = 0
  /\ reloadTimers = 0
  /\ loads = 0
  /\ wsCreated = 0
  /\ delivered = 0
  /\ lastMessage = Connected
  /\ lateUpdates = {}

\* the effect has run: loadLatestExecution() is in flight and connect() has
\* created the first socket
ViewInit ==
  /\ isMounted = TRUE
  /\ isConnected = FALSE
  /\ progress = InitialProgress
  /\ execution = NoExecution
  /\ viewWs = [state |-> "connecting", onclose |-> FALSE, clientPing |-> FALSE]
  /\ connectTimers = 0
  /\ reloadTimers = 0
  /\ loads = 1
  /\ wsCreated = 1
  /\ delivered = 0
  /\ lastMessage = Connected
  /\ lateUpdates = {}

ViewFrame ==
  /\ UNCHANGED execVars
  /\ UNCHANGED <<streamVars, critVars, orderVars, concVars, promptVars,
                 socketVars, editVars>>

\* a state setter called by `by`; it is late when the view is unmounted
SetState(by) ==
  lateUpdates' = IF isMounted THEN lateUpdates ELSE lateUpdates \cup {by}

\* ws.onopen: setIsConnected, start clientPing, install ws.onclose
WsOpen ==
  /\ viewWs.state = "connecting"
  /\ viewWs' = [state |-> "open", onclose |-> TRUE, clientPing |-> TRUE]
  /\ IF isMounted
     THEN isConnected' = TRUE /\ SetState("onopen")
     ELSE UNCHANGED <<isConnected, lateUpdates>>
  /\ UNCHANGED <<isMounted, progress, execution, connectTimers, reloadTimers,
                 loads, wsCreated, delivered, lastMessage>>
  /\ ViewFrame

\* ws.onclose as installed by ws.onopen: clearInterval(clientPing), and while
\* mounted setIsConnected(false) and setTimeout(connect, 3000)
OnClose ==
  IF viewWs.onclose
  THEN /\ viewWs' = [viewWs EXCEPT !.state = "closed", !.clientPing = FALSE]
       /\ IF isMounted
          THEN /\ isConnected' = FALSE
               /\ connectTimers' = connectTimers + 1
               /\ SetState("onclose")
          ELSE UNCHANGED <<isConnected, connectTimers, lateUpdates>>
  ELSE /\ viewWs' = [viewWs EXCEPT !.state = "closed"]
       /\ UNCHANGED <<isConnected, connectTimers, lateUpdates>>

\* the connection of an open socket is lost: the close event
WsClose ==
  /\ viewWs.state = "open"
  /\ wsCreated < MaxSockets
  /\ OnClose
  /\ UNCHANGED <<isMounted, progress, execution, reloadTimers, loads, wsCreated,
                 delivered, lastMessage>>
  /\ ViewFrame

\* the connection attempt fails: error and close events without an open
WsFail ==
  /\ viewWs.state = "connecting"
  /\ wsCreated < MaxSockets
  /\ OnClose
  /\ UNCHANGED <<isMounted, progress, execution, reloadTimers, loads, wsCreated,
                 delivered, lastMessage>>
  /\ ViewFrame

\* setTimeout(connect, 3000) fires: connect()
ConnectTimer ==
  /\ connectTimers > 0
  /\ connectTimers' = connectTimers - 1
  /\ IF isMounted
     THEN /\ viewWs' = [state |-> "connecting", onclose |-> FALSE,
                        clientPing |-> FALSE]
          /\ wsCreated' = wsCreated + 1
          /\ SetState("connect")
     ELSE UNCHANGED <<viewWs, wsCreated, lateUpdates>>
  /\ UNCHANGED <<isMounted, isConnected, progress, execution, reloadTimers,
                 loads, delivered, lastMessage>>
  /\ ViewFrame

\* setProgress of the execution_update branch
ProgressOf(data) ==
  [current |-> data.currentStep, status |-> data.status,
   stepName |-> data.stepName]

\* the steps.map of both branches, for the one step of the execution shown
ExecutionAfter(prev, data) ==
  IF ~prev.loaded THEN prev
  ELSE IF data.type = "model_switched"
  THEN IF data.stepName = "a" THEN [prev EXCEPT !.model = data.newModel]
       ELSE prev
  ELSE IF data.type = "execution_update" /\ data.stepUpdate # NoStepUpdate
          /\ data.stepName = "a"
  THEN [prev EXCEPT !.status = data.stepUpdate]
  ELSE prev

\* the onMessage callback given to api.connectWebSocket
Deliver ==
  /\ viewWs.state = "open"
  /\ delivered < MaxDeliveries
  /\ \E data \in ViewMessages :
       /\ delivered' = delivered + 1
       /\ lastMessage' = data
       /\ IF ~isMounted
          THEN UNCHANGED <<isConnected, progress, execution, reloadTimers,
                           lateUpdates>>
          ELSE /\ isConnected' = IF data.type = "connected" THEN TRUE
                                 ELSE isConnected
               /\ progress' = IF data.type = "execution_update"
                              THEN ProgressOf(data) ELSE progress
               /\ execution' = ExecutionAfter(execution, data)
               /\ reloadTimers' =
                    IF data.type = "execution_update"
                       /\ data.status \in {"completed", "failed"}
                    THEN reloadTimers + 1 ELSE reloadTimers
               /\ SetState("onmessage")
  /\ UNCHANGED <<isMounted, viewWs, connectTimers, loads, wsCreated>>
  /\ ViewFrame

\* setTimeout(() => { if (isMounted) loadLatestExecution() }, 1000) fires
ReloadTimer ==
  /\ reloadTimers > 0
  /\ reloadTimers' = reloadTimers - 1
  /\ loads' = IF isMounted THEN loads + 1 ELSE loads
  /\ UNCHANGED <<isMounted, isConnected, progress, execution, viewWs,
                 connectTimers, wsCreated, delivered, lastMessage, lateUpdates>>
  /\ ViewFrame

\* loadLatestExecution after its awaits: setExecution and setProgress, or
\* nothing when the workflow has no execution
LoadDone ==
  /\ loads > 0
  /\ loads' = loads - 1
  /\ \/ UNCHANGED <<execution, progress, lateUpdates>>
     \/ /\ execution' = LatestExecution
        /\ progress' = [current |-> 1, status |-> LatestExecution.status,
                        stepName |-> NoStepName]
        /\ SetState("load")
  /\ UNCHANGED <<isMounted, isConnected, viewWs, connectTimers, reloadTimers,
                 wsCreated, delivered, lastMessage>>
  /\ ViewFrame

\* the cleanup of the effect: isMounted = false; ws.onclose = null; ws.close()
Unmount ==
  /\ isMounted
  /\ isMounted' = FALSE
  /\ viewWs' = [viewWs EXCEPT !.state = "closed", !.onclose = FALSE]
  /\ UNCHANGED <<isConnected, progress, execution, connectTimers, reloadTimers,
                 loads, wsCreated, delivered, lastMessage, lateUpdates>>
  /\ ViewFrame

(* --------------------------- specifications --------------------------- *)
\* no run of executeWorkflow
ExecIdle == ExecInit({<<>>}, {IdleNotifier})

\* the specifications that do not run them leave these where they are
AsideIdle ==
  /\ StreamIdle /\ CriteriaIdle /\ OrderIdle /\ ConcIdle /\ PromptIdle
  /\ SocketIdle /\ EditIdle /\ ViewIdle

Init == ExecInit(Workflows, {IdleNotifier}) /\ AsideIdle
InitConfig == ExecInit(ConfigWorkflows, {IdleNotifier}) /\ AsideIdle
InitNotify == ExecInit(NotifyWorkflows, NotifierModes) /\ AsideIdle
InitStream ==
  /\ ExecIdle /\ StreamInit /\ CriteriaIdle /\ OrderIdle /\ ConcIdle /\ PromptIdle
  /\ SocketIdle /\ EditIdle /\ ViewIdle
InitCriteria ==
  /\ ExecIdle /\ StreamIdle /\ CriteriaInit /\ OrderIdle /\ ConcIdle /\ PromptIdle
  /\ SocketIdle /\ EditIdle /\ ViewIdle
InitOrder ==
  /\ ExecIdle /\ StreamIdle /\ CriteriaIdle /\ OrderInit /\ ConcIdle /\ PromptIdle
  /\ SocketIdle /\ EditIdle /\ ViewIdle
InitConc ==
  /\ ExecIdle /\ StreamIdle /\ CriteriaIdle /\ OrderIdle /\ ConcInit /\ PromptIdle
  /\ SocketIdle /\ EditIdle /\ ViewIdle
InitPrompt ==
  /\ ExecIdle /\ StreamIdle /\ CriteriaIdle /\ OrderIdle /\ ConcIdle /\ PromptInit
  /\ SocketIdle /\ EditIdle /\ ViewIdle
InitSocket ==
  /\ ExecIdle /\ StreamIdle /\ CriteriaIdle /\ OrderIdle /\ ConcIdle /\ PromptIdle
  /\ SocketInit /\ EditIdle /\ ViewIdle
InitEdit ==
  /\ ExecIdle /\ StreamIdle /\ CriteriaIdle /\ OrderInit /\ ConcIdle /\ PromptIdle
  /\ SocketIdle /\ EditInit /\ ViewIdle
InitView ==
  /\ ExecIdle /\ StreamIdle /\ CriteriaIdle /\ OrderIdle /\ ConcIdle /\ PromptIdle
  /\ SocketIdle /\ EditIdle /\ ViewInit

Next ==
  \/ StartRun
  \/ StartCatch
  \/ LoopHead
  \/ AttemptHead
  \/ InsertRecord
  \/ PersistPrompt
  \/ Fetch
  \/ Backoff
  \/ PersistResponse
  \/ PersistResult
  \/ RetryWait
  \/ StepCatch
  \/ StepFailed
  \/ StepRaised
  \/ AllStepsDone

Spec == Init /\ [][Next]_vars
SpecConfig == InitConfig /\ [][Next]_vars
SpecNotify == InitNotify /\ [][Next]_vars

NextStream ==
  \/ ReadChunk
  \/ ReadDone

SpecStream == InitStream /\ [][NextStream]_vars

NextCriteria == Evaluate

SpecCriteria == InitCriteria /\ [][NextCriteria]_vars

NextOrder ==
  \/ AddSelect
  \/ AddInsert
  \/ DeleteStep
  \/ ReorderSteps

SpecOrder == InitOrder /\ [][NextOrder]_vars

NextConc ==
  \E r \in Runs :
    \/ WfConnect(r)
    \/ WfInsert(r)
    \/ StConnect(r)
    \/ StInsert(r)
    \/ StPrompt(r)
    \/ StCall(r)
    \/ StRelease(r)
    \/ WfMark(r)
    \/ WfRelease(r)

SpecConc == InitConc /\ [][NextConc]_vars

NextPrompt == BuildPrompt

SpecPrompt == InitPrompt /\ [][NextPrompt]_vars

NextSocket ==
  \/ Broadcast
  \/ \E c \in Conns :
       \/ SockConnect(c)
       \/ Tick(c)
       \/ Pong(c)
       \/ ClientGone(c)
       \/ SockError(c)
       \/ CloseEvent(c)

\* the event loop hands over every 'close' event that is due
SpecSocket ==
  /\ InitSocket
  /\ [][NextSocket]_vars
  /\ \A c \in Conns : WF_vars(CloseEvent(c))

\* the step routes and one run of the workflow they edit, until the run ends
NextEdit ==
  \/ snapResult \in {"none", "running"} /\ AddSelect
  \/ snapResult \in {"none", "running"} /\ AddInsert
  \/ snapResult \in {"none", "running"} /\ DeleteStep
  \/ snapResult \in {"none", "running"} /\ ReorderSteps
  \/ UpdateStep
  \/ SnapStart
  \/ SnapStep
SpecEdit == InitEdit /\ [][NextEdit]_vars

NextView ==
  \/ WsOpen
  \/ WsClose
  \/ WsFail
  \/ ConnectTimer
  \/ Deliver
  \/ ReloadTimer
  \/ LoadDone
  \/ Unmount

\* timers that were set do fire
SpecView == InitView /\ [][NextView]_vars /\ WF_vars(ConnectTimer)


(* ======================================================================= *)
(*                               properties                                *)
(* ======================================================================= *)
RecordsOf(s) == SelectSeq(records, LAMBDA r : r.step = s)
Started == execStatus # "none"
Ended == pc = "done"

\* C1: for every step whose stored max_retries is N >= 0 (N = 0 included),
\* executeStep invokes callModel at most N+1 times.
C1_GatewayCallsAtMostNPlus1 ==
  \A s \in StepIdx :
    LET mr == steps[s].max_retries IN
    (mr # <<>> /\ mr[1] >= 0) => gatewayCalls[s] <= mr[1] + 1

\* C2: once a step resolved to failed, no later step is started (no record,
\* no gateway call, no invocation for a later step), and the run ends with the
\* Execution marked failed, a failure event emitted and status failed returned.
C2_FailedStepHaltsAndFailsRun ==
  \A s \in StepIdx :
    stepResult[s] = "failed" =>
      /\ \A t \in StepIdx : t > s => gatewayCalls[t] = 0 /\ judgeCalls[t] = 0
      /\ \A k \in DOMAIN records : records[k].step <= s
      /\ Len(invocations) <= s
      /\ Ended => execStatus = "failed" /\ evFailed >= 1 /\ result = "failed"


\* the records of step s whose criteria passed
PassingRecords(s) ==
  { k \in DOMAIN records : records[k].step = s /\ records[k].status = "completed" }

C5_StartedRunEndsTerminal ==
  (Started /\ Ended) => execStatus \in {"completed", "failed"}

\* C6: the run returns completed, with the Execution marked completed and the
\* completion event emitted, if and only if every step resolved to completed
\* (a workflow without steps included).
C6_CompletedIffAllStepsCompleted ==
  (Started /\ Ended) =>
    ( (result = "completed" /\ execStatus = "completed" /\ evCompleted = 1)
      <=> (\A s \in StepIdx : stepResult[s] = "completed") )

\* the attempts of step s so far: m criteria failures, then a pass
FailsThenPasses(s, m) ==
  attemptLog[s] = [k \in 1..(m + 1) |-> IF k <= m THEN "critfail" ELSE "critpass"]

\* C7: a step with max_retries = N whose criteria fail on the first m <= N
\* attempts and pass on attempt m+1 resolves to completed, the record of the
\* passing attempt has retry_count = m, the run goes on, and the next step is
\* invoked with the passing attempt's response.
C7_PassAfterRetries ==
  \A s \in StepIdx :
    LET mr == steps[s].max_retries
        recs == RecordsOf(s)
    IN  (mr # <<>> /\ mr[1] >= 0) =>
          \A m \in 0..mr[1] :
            FailsThenPasses(s, m) =>
              /\ stepResult[s] = "completed"
              /\ Len(recs) = m + 1
              /\ recs[m + 1].status = "completed"
              /\ recs[m + 1].retry_count = m
              /\ recs[m + 1].response # NoOutput
              /\ execError.step # s
              /\ \/ Len(invocations) > s
                 \/ pc = "loop" /\ i = s + 1
                 \/ s = Len(steps) /\ pc \in {"mark_completed", "done"}
              /\ Len(invocations) > s =>
                   invocations[s + 1].prev = recs[m + 1].response

\* the scenario of the specification: max_retries = 2, two failures, a pass on
\* the third attempt, and the next step invoked
C7_Witness ==
  /\ Len(steps) >= 2
  /\ steps[1].max_retries = <<2>>
  /\ FailsThenPasses(1, 2)
  /\ Len(invocations) = 2

\* C8: an error raised during an attempt of executeStep consumes one unit of
\* the retry budget like a criteria failure; executeStep never raises, and a
\* step that resolves to failed has used all its attempts.
C8_ErrorsConsumeRetryBudget ==
  \A s \in StepIdx :
    /\ stepResult[s] # "raised"
    /\ stepResult[s] = "failed" =>
         Len(attemptLog[s]) = EffectiveMaxRetries(steps[s].max_retries) + 1

\* C9 as stated: after a attempts of a step there are exactly a records for
\* it, with retry_count 0, 1, ..., a-1 in creation order.
C9_ExactlyOneRecordPerAttempt ==
  \A s \in StepIdx :
    LET recs == RecordsOf(s) IN
    /\ Len(recs) >= Len(attemptLog[s])
    /\ \A k \in 1..Len(recs) : recs[k].retry_count = k - 1

\* the attempts of step s (by position in its log) that committed a record
CommittedAttempts(s) ==
  SelectSeq([p \in 1..Len(attemptLog[s]) |-> p],
            LAMBDA p : attemptLog[s][p] # "error_norecord")

InAttemptWithRecord ==
  pc \in {"prompt", "cm_fetch", "cm_backoff", "persist_response",
          "persist_result", "st_catch"}

\* C9 (amended): every attempt that commits its INSERT creates exactly one
\* new record, with retry_count equal to the index of that attempt; an
\* attempt that raises before the commit creates none; and once a later
\* record exists no earlier record is written again.
C9_RecordPerCommittedAttempt ==
  /\ [](\A s \in StepIdx :
          LET recs == RecordsOf(s)
              done == CommittedAttempts(s)
          IN  /\ Len(recs) \in {Len(done), Len(done) + 1}
              /\ \A k \in 1..Len(done) : recs[k].retry_count = done[k] - 1
              /\ Len(recs) = Len(done) + 1 =>
                   /\ s = i
                   /\ InAttemptWithRecord
                   /\ stepExecId = Len(records)
                   /\ recs[Len(recs)].retry_count = Len(attemptLog[s]))
  /\ [][\A r \in DOMAIN records :
          (r < Len(records')) => (records'[r] = records[r])]_vars

\* a step whose first attempt raised before its record was committed and
\* whose second attempt has a record: one record, with retry_count 1
C9_Witness ==
  \E s \in StepIdx :
    /\ Len(attemptLog[s]) >= 2
    /\ attemptLog[s][1] = "error_norecord"
    /\ attemptLog[s][2] # "error_norecord"
    /\ Len(RecordsOf(s)) >= 1
    /\ RecordsOf(s)[1].retry_count = 1

\* C10: one callModel invocation issues at most 3 requests; it returns at the
\* first request that yields content, goes on after a failed request while
\* fewer than 3 were made, waits exactly once between two requests and never
\* after the third, and after a failed third request raises that request's
\* error.
C10_AtMostThreeRequests ==
  /\ requests <= 3
  /\ backoffs <= 2
  /\ pc = "cm_fetch" => cmOutcome = "running" /\ attempt = requests + 1
                        /\ backoffs = requests
  /\ pc = "cm_backoff" => cmOutcome = "running" /\ attempt = requests
                          /\ requests < 3 /\ backoffs = requests
                          /\ lastError.at = requests
  /\ cmOutcome = "returned" => requests >= 1 /\ backoffs = requests - 1
  /\ cmOutcome = "raised" =>
       /\ requests = 3
       /\ backoffs = 2
       /\ lastError.at = 3
       /\ lastError.kind \in GatewayErrorKinds
       /\ cmCaller = "step" => stepError = lastError

\* three failed requests: callModel raises to executeStep
C10_Witness ==
  /\ cmOutcome = "raised"
  /\ cmCaller = "step"
  /\ pc = "st_catch"
  /\ requests = 3

\* C11: a stream that ends without text is handled by callModel like a
\* connection failure: it is one of the 3 requests, it is followed by the
\* backoff and another request while fewer than 3 were made, it is the error
\* raised after the third, and callModel never returns empty content.
C11_EmptyStreamIsRetried ==
  /\ (cmOutcome = "returned" /\ cmCaller = "step") => llmResponse # NoOutput
  /\ \A k \in DOMAIN records :
       records[k].status = "completed" => records[k].response # NoOutput
  /\ lastError.kind = "empty" =>
       /\ lastError.at \in 1..LLMMaxRetries
       /\ lastError.at <= requests
       /\ pc = "cm_backoff" => requests < LLMMaxRetries /\ attempt = requests
       /\ cmOutcome = "raised" =>
            requests = LLMMaxRetries /\ lastError.at = LLMMaxRetries
       /\ cmOutcome = "running" /\ pc = "cm_fetch" => attempt = lastError.at + 1

\* the first request of a step's gateway call got an empty stream and the
\* second one returned content
C11_Witness ==
  /\ cmOutcome = "returned"
  /\ cmCaller = "step"
  /\ lastError = [kind |-> "empty", at |-> 1]
  /\ requests = 2
  /\ llmResponse # NoOutput

\* C12: a callModel that returns for a model id of the deprecated set has
\* switched = true, usedModel = the fallback id and sent the fallback id to
\* the backend; for any other id it has switched = false and usedModel and the
\* id sent equal to the requested id.
C12_DeprecatedModelsAreSubstituted ==
  /\ (cmCaller = "step") => cmModel = steps[i].model
  /\ (cmCaller = "judge") => cmModel = JudgeModel
  /\ cmOutcome = "returned" =>
       /\ requests >= 1
       /\ cmModel \in DeprecatedModels =>
            switched /\ usedModel = FallbackModel /\ sentModel = FallbackModel
       /\ cmModel \notin DeprecatedModels =>
            ~switched /\ usedModel = cmModel /\ sentModel = cmModel

\* callModel returned for the last id of the deprecated set
C12_Witness ==
  /\ cmOutcome = "returned"
  /\ cmCaller = "step"
  /\ cmModel = "fireworks-ai/kimi-k2-instruct-0905"
  /\ switched

\* model_switched events of step s, and the gateway results with switched =
\* true of step s whose handling ended with outcome o
EventsOf(s) == SelectSeq(evSwitched, LAMBDA e : e.step = s)
SwitchEntries(s, o) ==
  SelectSeq(switchLog, LAMBDA e : e.step = s /\ e.outcome = o)

\* what C13 says about a write and an event that happened, and about a
\* gateway result with switched = false
SwitchWritesAreRight(s) ==
  /\ Len(EventsOf(s)) = Len(SwitchEntries(s, "written"))
  /\ \A k \in 1..Len(EventsOf(s)) :
       /\ EventsOf(s)[k].originalModel = steps[s].model
       /\ EventsOf(s)[k].newModel = FallbackModel
  /\ storedModel[s] = IF Len(SwitchEntries(s, "written")) > 0
                      THEN FallbackModel ELSE steps[s].model
  /\ steps[s].model \notin DeprecatedModels =>
       /\ EventsOf(s) = <<>>
       /\ \A k \in DOMAIN switchLog : switchLog[k].step # s
  /\ \A k \in DOMAIN switchLog :
       switchLog[k].outcome = "pending" =>
         k = Len(switchLog) /\ pc = "persist_response" /\ switched

OneChunkContent(s) == ParseLines(CompleteLines(SplitLines(s)), <<>>)
OneChunkRest(s) == KeptPartial(SplitLines(s))

\* C14: stream assembly does not depend on chunk boundaries: however the
\* characters read so far were cut into chunks, the accumulated content and
\* the buffered rest are those of reading them as one chunk.
C14_ChunkingDoesNotMatter ==
  /\ streamText = OneChunkContent(SubSeq(stream, 1, pos))
  /\ buffer = OneChunkRest(SubSeq(stream, 1, pos))
  /\ streamDone => pos = Len(stream) /\ streamText = OneChunkContent(stream)

\* a chunk has ended inside the prefix of the second line of a stream whose
\* second line carries a fragment
C14_Witness ==
  /\ ~streamDone
  /\ stream = JoinLines(<<Prefix \o <<"{", "t", "}">>, Prefix \o <<"{", "a", "}">>>>, TRUE)
  /\ buffer = <<"d">>
  /\ streamText = <<"t">>

\* C15 as stated: the accumulated content is the in-order concatenation of
\* the fragments of all data lines of the stream with a well-formed payload.
C15_AllDataLinesAccumulated ==
  streamDone => streamText = ParseLines(SplitLines(stream), <<>>)


\* the criteria values C16 lists: an invalid pattern, a value of the wrong
\* type, no criteria at all, a gateway failure while the judge is asked
InvalidPattern(c) ==
  c # MissingCriteria /\ c.type = "regex_match" /\ c.value = JsString(<<"(">>)
WrongTypedValue(c) ==
  /\ c # MissingCriteria
  /\ \/ c.type \in {"contains_text", "regex_match", "llm_judge"} /\ c.value.t # "string"
     \/ c.type = "min_length" /\ c.value.t # "number"
JudgeFailure(c, judge) ==
  c # MissingCriteria /\ c.type = "llm_judge" /\ judge = JudgeThrows

\* C16 as stated: evaluateCriteria never raises, and for an invalid pattern, a
\* value of the wrong type, missing criteria or a gateway failure of the judge
\* the result is passed = false.
C16_BadCriteriaNeverPass ==
  critResult # NoResult =>
    /\ ~critResult.raised
    /\ ( \/ critCriteria = MissingCriteria
         \/ InvalidPattern(critCriteria)
         \/ WrongTypedValue(critCriteria)
         \/ JudgeFailure(critCriteria, critJudge) )
       => ~critResult.passed

\* the part of C16 the code keeps: no call raises, and what the switch throws
\* comes back as passed = false
EvaluateCriteriaNeverRaises ==
  critResult # NoResult =>
    /\ ~critResult.raised
    /\ ( \/ critCriteria = MissingCriteria
         \/ InvalidPattern(critCriteria)
         \/ JudgeFailure(critCriteria, critJudge) )
       => ~critResult.passed /\ critResult.reason = "error"


\* the steps whose criteria kind is none of the six the switch knows
UnknownKind(s) == steps[s].kind = "unknown"

\* C17 as stated: a step of unknown criteria kind never resolves to completed,
\* none of its attempts passes, a resolved step has run max_retries + 1
\* attempts and resolved to failed, and the execution is then failed.
C17_UnknownKindFailsAfterAllAttempts ==
  \A s \in StepIdx :
    UnknownKind(s) =>
      /\ stepResult[s] # "completed"
      /\ \A k \in DOMAIN attemptLog[s] : attemptLog[s][k] # "critpass"
      /\ stepResult[s] \in {"failed", "raised", "undefined"} =>
           /\ stepResult[s] = "failed"
           /\ Len(attemptLog[s]) = steps[s].max_retries[1] + 1
      /\ (Ended /\ Len(invocations) >= s) =>
           stepResult[s] = "failed" /\ execStatus = "failed"

\* the part of C17 that needs nothing else: no attempt of such a step passes
\* and the step never resolves to completed
UnknownKindNeverCompletes ==
  \A s \in StepIdx :
    UnknownKind(s) =>
      /\ stepResult[s] # "completed"
      /\ \A k \in DOMAIN attemptLog[s] : attemptLog[s][k] # "critpass"


\* C18 as stated: whatever add, delete and reorder requests have been served,
\* the step_order values of the workflow's steps are pairwise distinct and are
\* exactly 1..n for its n steps.
C18_OrdersAreOneToN ==
  /\ UniqueOrders(rows)
  /\ {rows[a] : a \in DOMAIN rows} = 1..Cardinality(DOMAIN rows)

\* the part of C18 the UNIQUE constraint keeps: no two steps share an order
OrdersStayDistinct == UniqueOrders(rows)


\* the step_executions rows of run r, in creation order
RowsOfRun(r) ==
  SelectSeq(stepExecutions, LAMBDA row : row.execution_id = runExecId[r])

RECURSIVE ExpectedStatuses(_, _)
\* the statuses of the attempts a run with script sc makes from attempt k on
ExpectedStatuses(sc, k) ==
  IF k > ConcMaxRetries + 1 THEN <<>>
  ELSE IF sc[k] THEN <<"completed">>
  ELSE <<"failed">> \o ExpectedStatuses(sc, k + 1)

ExpectedResult(sc) ==
  IF \E k \in DOMAIN sc : sc[k] THEN "completed" ELSE "failed"

\* every row was written only by the run that created it, and a run that
\* ended has the result and the rows its own verdicts determine
RecordsBelongToTheirRun ==
  /\ \A k \in DOMAIN executions : executions[k].writers = {executions[k].creator}
  /\ \A k \in DOMAIN stepExecutions :
       /\ stepExecutions[k].writers = {stepExecutions[k].creator}
       /\ stepExecutions[k].execution_id = runExecId[stepExecutions[k].creator]
  /\ \A r \in Runs :
       runPc[r] = "done" =>
         /\ runResult[r] = ExpectedResult(runScript[r])
         /\ executions[runExecId[r]].status = runResult[r]
         /\ [k \in DOMAIN RowsOfRun(r) |-> RowsOfRun(r)[k].status]
              = ExpectedStatuses(runScript[r], 1)
         /\ \A k \in DOMAIN RowsOfRun(r) : RowsOfRun(r)[k].retry_count = k - 1

\* some run has not ended and none can take a step: each waits for a pool
\* connection and the pool has none
RunsBlocked ==
  /\ \E r \in Runs : runPc[r] # "done"
  /\ Free = 0
  /\ \A r \in Runs :
       runPc[r] \in {"done", "wf_connect", "st_connect", "st_prompt", "st_call", "wf_mark"}

\* C19 as stated: concurrent executions share no mutable state: rows are
\* written only by the run that created them, and a run reaches the same
\* outcome and rows however its steps interleave with those of other runs,
\* so no run is ever held up for good by another.
C19_RunsAreIndependent ==
  /\ RecordsBelongToTheirRun
  /\ ~RunsBlocked


C21_FailureNamesStepAndReason ==
  (Ended /\ result = "failed") =>
    /\ execStatus = "failed"
    /\ execError.step \in StepIdx
    /\ execError.err # NoError
    /\ evFailed >= 1

\* the part of C21 the code keeps: the status, a reason and the event
FailureIsPersistedAndAnnounced ==
  (Ended /\ result = "failed") =>
    /\ execStatus = "failed"
    /\ execError.err # NoError
    /\ evFailed >= 1
    /\ execError.step # 0 => (execError.step = i /\ stepResult[i] = "failed")


\* C22: buildPrompt returns the raw prompt when there is no previous output;
\* otherwise the header, the context fragment of the step's strategy (the
\* whole previous output for full, for a missing and for an unrecognised
\* strategy), a blank line and then the original prompt.
C22_PromptIsFramedContext ==
  bpResult # NoPrompt =>
    IF bpPrev = NoOutput
    THEN bpResult = bpStep.prompt
    ELSE /\ bpResult = Header \o <<"\n">> \o bpContext \o <<"\n", "\n">> \o bpStep.prompt
         /\ bpStep.context_strategy \in {"full", "other", "null"} => bpContext = bpPrev
         /\ SubSeq(bpResult, Len(bpResult) - Len(bpStep.prompt) + 1, Len(bpResult))
              = bpStep.prompt

\* a prompt built from a previous output under a strategy the switch does
\* not know
C22_Witness ==
  /\ bpResult # NoPrompt
  /\ bpStep.context_strategy = "other"
  /\ bpPrev = <<"x", "\n", "x">>
  /\ bpResult = Header \o <<"\n", "x", "\n", "x", "\n", "\n">> \o bpStep.prompt

\* C23: with the summary strategy the fragment is the first 500 characters
\* followed by '...' exactly when the previous output is longer than 500
\* characters, an output of at most 500 characters is carried unchanged, and
\* the fragment is never longer than 503 characters.
C23_SummaryCutsAtLimit ==
  (bpResult # NoPrompt /\ bpPrev # NoOutput /\ bpStep.context_strategy = "summary") =>
    /\ Len(bpPrev) > SummaryLimit =>
         bpContext = SubSeq(bpPrev, 1, SummaryLimit) \o Ellipsis
    /\ Len(bpPrev) <= SummaryLimit => bpContext = bpPrev
    /\ Len(bpContext) <= SummaryLimit + 3

\* an output of exactly 500 characters went through the summary strategy
C23_Witness ==
  /\ bpResult # NoPrompt
  /\ bpStep.context_strategy = "summary"
  /\ Len(bpPrev) = SummaryLimit
  /\ bpContext = bpPrev


\* C24: with a number v as its value the min_length criterion passes exactly
\* when the output has at least v characters: length v - 1 fails, length v
\* passes.
C24_MinLengthIsInclusive ==
  (critResult # NoResult /\ critCriteria.type = "min_length"
     /\ critCriteria.value.t = "number") =>
    /\ critResult.passed <=> Len(critOutput) >= critCriteria.value.n
    /\ Len(critOutput) = critCriteria.value.n - 1 => ~critResult.passed
    /\ Len(critOutput) = critCriteria.value.n => critResult.passed

\* an output of exactly v characters passed
C24_Witness ==
  /\ critResult # NoResult
  /\ critCriteria = [type |-> "min_length", value |-> JsNumber(2)]
  /\ Len(critOutput) = 2
  /\ critResult.passed


\* C25 (heartbeat), part 1: a socket terminated while still open had left a
\* ping unanswered until the next tick, so a client that answers every ping
\* before the next tick is never terminated
AnsweringClientIsKept ==
  \A c \in Conns : socks[c].terminated = "open" => socks[c].missed

\* C25, part 2: a tick that saw no pong since the tick before it terminates
\* the socket
SilentClientIsTerminated ==
  \A c \in Conns : socks[c].quiet => socks[c].terminated # "no"

\* C25, part 3: a terminated socket is on its way out of the client set
TerminatedIsLeaving ==
  \A c \in Conns :
    socks[c].terminated # "no" => (socks[c].closeDue \/ c \notin wsClients)

\* C25: a client that answers every ping with a pong before the next heartbeat
\* tick is never terminated; a client that sends no pong between two
\* consecutive ticks is terminated at the second of them and then removed from
\* the client set
C25_HeartbeatKeepsAnsweringClients ==
  /\ [](AnsweringClientIsKept /\ SilentClientIsTerminated /\ TerminatedIsLeaving)
  /\ \A c \in Conns : (socks[c].terminated # "no") ~> (c \notin wsClients)

\* one client answered every ping of MaxTicks ticks and is still connected,
\* another was silent, was terminated while open and has left the set
C25_Witness ==
  \E c, d \in Conns :
    /\ socks[c].ticks = MaxTicks /\ ~socks[c].missed /\ socks[c].state = "open"
    /\ socks[c].terminated = "no" /\ c \in wsClients
    /\ socks[d].quiet /\ socks[d].terminated = "open" /\ d \notin wsClients


\* the position of a broadcast in the log is its id in the inboxes
Received(c, k) == \E x \in 1..Len(inbox[c]) : inbox[c][x] = k

\* C26 (broadcast): every message, flagged as large or not, is sent to every
\* client that was open when broadcast was called, except a client whose own
\* send raised; a send that raises keeps no other client from its message and
\* a large message is flagged, never held back
C26_BroadcastReachesEveryOpenClient ==
  \A k \in 1..Len(broadcasts) :
    /\ broadcasts[k].flagged = (broadcasts[k].size > LargeThreshold)
    /\ \A c \in broadcasts[k].open \ broadcasts[k].raised : Received(c, k)

\* a flagged message went to two open clients, the send to the first raised
\* and the second has the message
C26_Witness ==
  \E k \in 1..Len(broadcasts) :
    /\ broadcasts[k].flagged
    /\ broadcasts[k].open = Conns
    /\ broadcasts[k].raised = {1}
    /\ Received(MaxClients, k)


\* the attempt in progress, or the last one, did this
Has(what) == \E x \in 1..Len(attemptTrace) : attemptTrace[x] = what

\* C27 (retry event): a retry event is emitted for a failed attempt only if
\* attempts remain, so the last attempt of a step that executeStep returns as
\* failed has emitted no retry event
C27_NoRetryEventOnFinalAttempt ==
  (pc = "wf_failed" /\ stepResult[i] = "failed") => ~Has("retry")

\* a retry event of an attempt that is followed by another attempt
RetryEventBeforeNextAttempt == pc = "retry_wait" => Has("retry")


\* the actions of one attempt that runs to its end, criteria met or not
AttemptOrder(met) ==
  <<"record_created", "prompt_persisted", "calling_llm", "gateway_call",
    "response_persisted", "evaluating_criteria", "criteria_evaluated",
    IF met THEN "record_completed" ELSE "record_failed",
    IF met THEN "completed" ELSE "retry">>

\* the trace without the handling of a substituted model
ListedActions ==
  SelectSeq(attemptTrace,
            LAMBDA e : e \notin {"model_persisted", "model_switched"})

\* the first n actions of the order, or those and then the catch block
\* setting the record to failed
FollowsAttemptOrder(t) ==
  \E met \in BOOLEAN :
    \E n \in 0..Len(AttemptOrder(met)) :
      \/ t = SubSeq(AttemptOrder(met), 1, n)
      \/ /\ n <= 7
         /\ t = SubSeq(AttemptOrder(met), 1, n) \o <<"record_failed">>

\* C28 (order within an attempt): what an attempt has done so far is an initial
\* part of: record created in status running, prompt persisted, calling_llm,
\* gateway call, response persisted, evaluating_criteria, criteria evaluated,
\* record completed or failed, completed or retry event (an attempt cut short
\* by an error only sets its record to failed); an attempt that ran to its end
\* did all of them; evaluating_criteria never comes before calling_llm nor
\* completed without the evaluation
C28_AttemptActionsInFixedOrder ==
  /\ FollowsAttemptOrder(ListedActions)
  /\ pc = "prompt" => records[stepExecId].status = "running"
  /\ Has("evaluating_criteria") => Has("calling_llm")
  /\ Has("completed") =>
       /\ ListedActions = AttemptOrder(TRUE)
       /\ records[Len(records)].status = "completed"
  /\ Has("retry") =>
       /\ ListedActions = AttemptOrder(FALSE)
       /\ records[Len(records)].status = "failed"

\* an attempt ran to its end with the criteria met, after an earlier attempt
\* of the run had ended in a retry event
C28_Witness ==
  /\ ListedActions = AttemptOrder(TRUE)
  /\ \E s \in StepIdx :
       \E x \in 1..Len(attemptLog[s]) : attemptLog[s][x] = "critfail"


\* C29 (pool): whatever the size of the pool, executions started together all
\* reach a terminal status: the runs are never all waiting for a connection
\* of a pool whose connections they hold themselves
C29_RunsNeverWaitOnEachOther ==
  \A P \in PoolSizes : poolSize = P => ~RunsBlocked


\* the stored max_retries values for which the loop of executeStep is entered
LoopEntered(s) == LoopCondition(0, EffectiveMaxRetries(steps[s].max_retries))

\* C30 (result of executeStep): for every stored max_retries (0, positive,
\* null, negative) executeStep ends by returning a result whose status is
\* completed or failed; it never returns without a result
C30_StepAlwaysReturnsResult ==
  \A s \in StepIdx : stepResult[s] \in {"none", "completed", "failed"}

\* with the loop entered, a call that returns at all returns a result
ResultWhenLoopEntered ==
  \A s \in StepIdx :
    LoopEntered(s) => stepResult[s] \in {"none", "completed", "failed", "raised"}


\* executeWorkflow ended without having committed its start
StartFailed == pc = "done" /\ startTx # "committed"

\* C31 (atomic start): when creating the Execution record or reading the steps
\* fails, the transaction is rolled back, no Execution record of the run
\* remains, no event is emitted, no step is executed, and executeWorkflow
\* raises that error to its caller
C31_StartIsAtomic ==
  StartFailed =>
    /\ startTx \in {"none", "rolled_back"}
    /\ execStatus = "none"
    /\ evFailed = 0 /\ evCompleted = 0 /\ evSwitched = <<>>
    /\ invocations = <<>> /\ records = <<>>
    /\ result = "raised"
    /\ raisedBy = "start"

\* what a failed start leaves however its catch block goes: no committed
\* record, no event, no step, the connection given back, an error raised
FailedStartLeavesNothing ==
  StartFailed =>
    /\ execStatus = "none"
    /\ evFailed = 0 /\ evCompleted = 0 /\ evSwitched = <<>>
    /\ invocations = <<>> /\ records = <<>>
    /\ result = "raised"
    /\ conns = 0


\* how the attempts of step s that left a row ended, in order
RecordedAttempts(s) ==
  SelectSeq(attemptLog[s], LAMBDA o : o # "error_norecord")

\* C32 (no record left running): once executeStep has returned completed or
\* failed for a step, none of the step's records is in status running: the
\* record of an attempt is completed when its criteria passed and failed when
\* they failed or the attempt raised
C32_NoRecordLeftRunning ==
  \A s \in StepIdx :
    stepResult[s] \in {"completed", "failed"} =>
      /\ Len(RecordsOf(s)) = Len(RecordedAttempts(s))
      /\ \A k \in 1..Len(RecordsOf(s)) :
           RecordsOf(s)[k].status =
             IF RecordedAttempts(s)[k] = "critpass" THEN "completed" ELSE "failed"

\* a step returned completed after one attempt that raised and one whose
\* criteria failed, each with its record
C32_Witness ==
  \E s \in StepIdx :
    /\ stepResult[s] = "completed"
    /\ Len(RecordsOf(s)) = 3
    /\ \E k \in 1..2 : RecordedAttempts(s)[k] = "error"
    /\ \E k \in 1..2 : RecordedAttempts(s)[k] = "critfail"


\* the steps as far as buildPrompt reads them, with the strategies that take
\* the previous output whole or cut it by length
PlainPromptSteps == {ps \in PromptSteps : ps.context_strategy # "code_only"}

\* C33 (carried output): the output carried into a step after the first is
\* never empty, so every step after the first is sent a prompt that starts
\* with the context header and only the first step is sent its raw prompt
C33_LaterStepsGetContext ==
  \A k \in 1..Len(invocations) :
    LET inv == invocations[k] IN
    /\ (inv.prev = NoOutput) = (inv.step = 1)
    /\ \A ps \in PlainPromptSteps :
         IF inv.step = 1
         THEN BuildPromptOf(ps, inv.prev) = ps.prompt
         ELSE SubSeq(BuildPromptOf(ps, inv.prev), 1, 1) = Header

\* a second step was invoked with the response of the first step's second
\* attempt
C33_Witness ==
  \E k \in 1..Len(invocations) :
    /\ invocations[k].step = 2
    /\ invocations[k].prev = Content(1, 1)


\* substituting twice is substituting once, and the result is not substituted
SubstitutionIsIdempotent ==
  \A m \in ModelIds :
    /\ UsedModelOf(UsedModelOf(m)) = UsedModelOf(m)
    /\ ~SwitchedOf(UsedModelOf(m))

\* C34 (substitution converges): the fallback id is not a deprecated one, so
\* substituting the result of a substitution changes nothing; once the
\* substitution of a step was written back, a run that reads the stored model
\* again reports switched = false for the step; the model of the llm_judge
\* call is never substituted
C34_SubstitutionConverges ==
  /\ SubstitutionIsIdempotent
  /\ \A k \in 1..Len(switchLog) :
       switchLog[k].outcome = "written" =>
         /\ ~SwitchedOf(storedModel[switchLog[k].step])
         /\ UsedModelOf(storedModel[switchLog[k].step])
              = storedModel[switchLog[k].step]
  /\ ~SwitchedOf(JudgeModel)
  /\ (cmCaller = "judge" /\ cmOutcome # "idle") =>
       (~switched /\ usedModel = JudgeModel /\ cmModel = JudgeModel)

\* a run over a deprecated model ended completed with the substitution
\* written back and the judge consulted
C34_Witness ==
  /\ pc = "done" /\ result = "completed"
  /\ \E k \in 1..Len(switchLog) :
       /\ switchLog[k].outcome = "written"
       /\ steps[switchLog[k].step].model \in DeprecatedModels
       /\ storedModel[switchLog[k].step] = FallbackModel
       /\ judgeCalls[switchLog[k].step] > 0


\* what the run has sent to the gateway is the beginning of what it read
RunFollowsSnapshot ==
  /\ Len(stepsRun) <= Len(snapshot)
  /\ stepsRun = SubSeq(snapshot, 1, Len(stepsRun))

\* C35 (a run uses the step list it read): requests that add, update, delete
\* or reorder steps while the run is in flight change neither which steps it
\* runs, nor their order, nor the configuration it uses for them
C35_RunUnaffectedByEdits ==
  /\ RunFollowsSnapshot
  /\ snapResult = "completed" => stepsRun = snapshot
  /\ snapResult = "failed" =>
       /\ snapFailedBy = "criteria"
       /\ stepsRun # <<>>

\* a run over two steps completed although, in flight, the step it had not
\* reached was updated and the order of the rows changed
EditedInFlight ==
  /\ snapResult = "completed"
  /\ Len(snapshot) = 2
  /\ rowCfg[snapshot[2].id] > snapshot[2].cfg
  /\ InOrder(rows) # <<>>
  /\ InOrder(rows)[1].id # snapshot[1].id


\* C36: a step stored with max_retries = N >= 0 causes at most 3*(N+1) requests
\* to the model backend in one run when its criteria kind is not llm_judge,
\* and at most 6*(N+1) when it is.
C36_RequestsPerStepAreBounded ==
  \A s \in StepIdx :
    LET mr == steps[s].max_retries IN
    (mr # <<>> /\ mr[1] >= 0) =>
      httpRequests[s] <= (IF steps[s].kind = "llm_judge" THEN 6 ELSE 3) * (mr[1] + 1)

\* the bound the code keeps: 3 requests per invocation of callModel, one
\* invocation per attempt (two for llm_judge), attempts counted from the
\* max_retries executeStep computed, which is 2 for a stored 0
RequestsWithinAttemptsMade ==
  \A s \in StepIdx :
    /\ httpRequests[s] <= LLMMaxRetries * (gatewayCalls[s] + judgeCalls[s])
    /\ steps[s].kind # "llm_judge" => judgeCalls[s] = 0
    /\ judgeCalls[s] <= gatewayCalls[s]
    /\ LET mr == steps[s].max_retries IN
       (mr # <<>> /\ mr[1] >= 0) =>
         gatewayCalls[s] <= (IF mr[1] = 0 THEN DefaultMaxRetries ELSE mr[1]) + 1


\* the message just handed to onMessage belongs to an execution of another
\* workflow than the one the view was opened for
ForeignDelivered ==
  /\ delivered' # delivered
  /\ lastMessage'.type \in {"execution_update", "model_switched"}
  /\ lastMessage'.workflow # ViewedWorkflow

\* C37: an execution_update or model_switched message that belongs to an
\* execution of another workflow never changes the progress or the step state
\* the view displays.
C37_OnlyOwnEventsChangeView ==
  [][ForeignDelivered => progress' = progress /\ execution' = execution]_vars

\* what the handler does keep apart: a message naming a step the shown
\* execution does not have leaves the steps as they are
ForeignStepNamesLeaveSteps ==
  [][(delivered' # delivered /\ lastMessage'.stepName # "a")
       => execution' = execution]_vars

\* the callers of state setters inside connect
SocketSetters == {"onopen", "onclose", "connect", "onmessage"}

\* the socket of the mounted view is closed
LostWhileMounted == isMounted /\ viewWs.state = "closed"
Reconnecting == ~isMounted \/ viewWs.state = "connecting"

\* C38: while the view is mounted every loss of its connection, after an open
\* or before one, is followed by a new connection attempt; after the cleanup
\* no reconnect is scheduled, no socket is created and none of the handlers
\* and timers of the connection calls a state setter.
C38_ReconnectsUntilUnmount ==
  /\ LostWhileMounted ~> Reconnecting
  /\ [][~isMounted => connectTimers' <= connectTimers /\ wsCreated' = wsCreated]_vars
  /\ [](lateUpdates \cap SocketSetters = {})

\* what the code keeps: a close after an open is followed by an attempt, and
\* only a loadLatestExecution still waiting for its answer calls a setter
\* after the cleanup
CloseAfterOpenReconnects ==
  /\ (LostWhileMounted /\ viewWs.onclose) ~> Reconnecting
  /\ [][~isMounted => connectTimers' <= connectTimers /\ wsCreated' = wsCreated]_vars
  /\ [](lateUpdates \subseteq {"load"})

\* the part that fails: a retry after an attempt that never opened
FailedAttemptIsRetried ==
  (LostWhileMounted /\ ~viewWs.onclose) ~> Reconnecting


\* where the run is while executeStep holds the connection of an attempt
InAttempt ==
  pc \in {"insert", "prompt", "cm_fetch", "cm_backoff", "persist_response",
          "persist_result", "retry_wait", "st_catch"}

\* C39: every connection executeWorkflow or executeStep got from pool.connect
\* is released exactly once on every path: the run holds the connection of
\* executeWorkflow from its start to its end, one more during an attempt of
\* executeStep, and none once it ended, however it ended.
C39_ConnectionsReleasedOnce ==
  /\ conns = (IF pc \in {"idle", "done"} THEN 0
              ELSE IF InAttempt THEN 2 ELSE 1)
  /\ pc = "done" => conns = 0

\* a run that ended by an exception out of executeStep (its ROLLBACK or its
\* UPDATE in the catch block raised) holds nothing
C39_Witness ==
  /\ pc = "done"
  /\ conns = 0
  /\ \E s \in StepIdx : stepResult[s] = "raised" /\ records # <<>>


\* the 'close' event of the socket has been handled
CloseHandled(c) == socks[c].state = "closed" /\ ~socks[c].closeDue
\* the clients send was called on by broadcast k
SentTo(k) ==
  {c \in Conns : \E n \in DOMAIN inbox[c] : inbox[c][n] = k}
    \cup broadcasts[k].raised

\* C40: the client set holds exactly the sockets that connected and have had
\* neither a 'close' nor an 'error' event; the heartbeat timer of a socket is
\* cleared once its 'close' event was handled; broadcast calls send only on
\* sockets that are open.
C40_ClientSetIsTheLiveSockets ==
  /\ wsClients = {c \in Conns : /\ socks[c].state # "none"
                                /\ ~CloseHandled(c)
                                /\ ~socks[c].errored}
  /\ \A c \in Conns : CloseHandled(c) => ~socks[c].timer
  /\ \A k \in DOMAIN broadcasts : SentTo(k) \subseteq broadcasts[k].open

\* a broadcast went to one client while another one had errored; that one
\* has since been closed, is out of the set and has no timer
C40_Witness ==
  \E c, d \in Conns :
    /\ inbox[c] # <<>>
    /\ socks[d].errored
    /\ CloseHandled(d)
    /\ inbox[d] = <<>>
    /\ d \notin wsClients

=============================================================================
